---- MODULE Spec2Model ----
(***************************************************************************)
(* Multi-day route planning (src/utils/clustering.ts and its revisions):   *)
(* proximity grouping, seeded k-means partitioning into day clusters,      *)
(* drive-time balancing, empty-cluster repair and the nearest-neighbour    *)
(* day sequencer.                                                          *)
(*                                                                         *)
(* Geometry.  Every coordinate of the model lies on one meridian (all lng  *)
(* are 0), where    the haversine distance of calculateDistance is exactly *)
(* R * |lat1 - lat2| * PI/180, i.e. linear in the latitude difference.     *)
(* Latitudes are integers in units of (0.01 mile of arc) / Scale, so that  *)
(* calculateDistance is |lat1 - lat2| in units of 0.01/Scale mile and the  *)
(* arithmetic means the code takes (centroids) stay integers: Scale is a   *)
(* common multiple of every denominator that can occur.  Drive minutes are *)
(* 2 per mile, so a drive time is the route length in units of             *)
(* 1/(50*Scale) minute.                                                    *)
(***************************************************************************)
EXTENDS Integers, Sequences, FiniteSets, TLC

VARIABLES
    variant,      \* which revision of clusterCustomers runs ("plain", "house")
    customers,    \* the caller's list of visits
    numDays,      \* requested number of days
    homeBase,     \* [defined, lat, lng]; defined = FALSE models undefined
    pc,           \* position inside the running function
    houseGroups,  \* groups produced by proximity grouping
    centroids,    \* k-means: current centroids
    clusters,     \* the Cluster[] being built / balanced
    iterations,   \* k-means: iteration counter
    attempts,     \* balancer: attempt counter
    balanced,     \* balancer: the flag of the while loop
    idx,          \* balancer: index i of the for loop (0-based)
    totalTime,    \* balancer: calculateTotalDriveTime(clusters) at entry
    lastMove,     \* balancer: the move applied by the latest step, if any
    visitMoved,   \* TRUE once the balancer has moved a single visit
    result,       \* returned value of the function under test
    unvisited,    \* optimizeDayRoute: working array [alias, items]
    optimized,    \* optimizeDayRoute: output array
    current,      \* optimizeDayRoute: current position
    threw         \* TRUE when the call ended in a thrown TypeError

vars == <<variant, customers, numDays, homeBase, pc, houseGroups, centroids,
          clusters, iterations, attempts, balanced, idx, totalTime, lastMove,
          visitMoved, result, unvisited, optimized, current, threw>>

planVars  == <<variant, numDays, houseGroups, centroids, clusters, iterations,
               attempts, balanced, idx, totalTime, lastMove, visitMoved>>
routeVars == <<unvisited, optimized, current>>

----------------------------------------------------------------------------
(* Bounds of the model *)

MaxVisits == 3
MaxDays == 3        \* largest numDays
RandSteps == 2      \* resolution of the modelled Math.random()
MaxWorkVisits == 4  \* longest list of visits of the work-time revision
MaxGroups == 7      \* longest list of points of one assignment step
MaxUnits == 5       \* most units in the buckets handed to the repair

(* Program constants *)

HOUSE_GROUP_DISTANCE == 10   \* 0.1 mile, in 0.01 mile
ConvergenceMiles == 10       \* 0.1 mile, in 0.01 mile
maxIterations == 20
maxAttempts == 20
Infinity == 1000000000

----------------------------------------------------------------------------
(* Arithmetic helpers *)

Abs(x) == IF x < 0 THEN -x ELSE x

RECURSIVE Gcd(_, _)
Gcd(a, b) == IF b = 0 THEN a ELSE Gcd(b, a % b)

Lcm(a, b) == (a * b) \div Gcd(a, b)

RECURSIVE LcmUpTo(_)
LcmUpTo(n) == IF n <= 1 THEN 1 ELSE Lcm(n, LcmUpTo(n - 1))

\* common multiple of the denominators of a mean of group centroids
Scale ==
    LET l == Lcm(LcmUpTo(MaxVisits), LcmUpTo(MaxWorkVisits)) IN l * l

RECURSIVE SumSeq(_)
SumSeq(s) == IF s = <<>> THEN 0 ELSE Head(s) + SumSeq(Tail(s))

Range(s) == {s[i] : i \in DOMAIN s}

SeqOfLen(S, n) == [1..n -> S]

----------------------------------------------------------------------------
(* calculateDistance: haversine distance, on the model's meridian *)

\* variant: the difference is returned with its sign (no squared sine)
calculateDistanceSigned(lat1, lng1, lat2, lng2) == lat2 - lat1

calculateDistance(lat1, lng1, lat2, lng2) == Abs(lat2 - lat1)

----------------------------------------------------------------------------
(* optimizeDayRoute as a function (used by calculateClusterDriveTime) *)

\* variant: the comparison is <=, so the last of several nearest wins
RECURSIVE ScanNearestLastWins(_, _, _, _, _, _)
ScanNearestLastWins(lat, lng, u, i, nearestIndex, nearestDistance) ==
    IF i > Len(u) THEN nearestIndex
    ELSE LET distance == calculateDistance(lat, lng, u[i].lat, u[i].lng)
         IN IF distance <= nearestDistance
            THEN ScanNearestLastWins(lat, lng, u, i + 1, i, distance)
            ELSE ScanNearestLastWins(lat, lng, u, i + 1, nearestIndex,
                                     nearestDistance)

\* the for loop that finds the nearest unvisited customer; i, best are 1-based
RECURSIVE ScanNearest(_, _, _, _, _, _)
ScanNearest(lat, lng, u, i, nearestIndex, nearestDistance) ==
    IF i > Len(u) THEN nearestIndex
    ELSE LET distance == calculateDistance(lat, lng, u[i].lat, u[i].lng)
         IN IF distance < nearestDistance
            THEN ScanNearest(lat, lng, u, i + 1, i, distance)
            ELSE ScanNearest(lat, lng, u, i + 1, nearestIndex, nearestDistance)

\* variant: of several nearest customers the last in the array is taken
NearestIndexLastWins(lat, lng, u) ==
    ScanNearestLastWins(lat, lng, u, 2, 1,
                        calculateDistance(lat, lng, u[1].lat, u[1].lng))

NearestIndex(lat, lng, u) ==
    ScanNearest(lat, lng, u, 2, 1,
                calculateDistance(lat, lng, u[1].lat, u[1].lng))

\* Array.prototype.splice(i, 1): the array without its i-th element
Splice(u, i) == [k \in 1..(Len(u) - 1) |-> IF k < i THEN u[k] ELSE u[k + 1]]

RECURSIVE RouteLoop(_, _, _, _)
RouteLoop(u, out, lat, lng) ==
    IF Len(u) = 0 THEN out
    ELSE LET n == NearestIndex(lat, lng, u)
         IN RouteLoop(Splice(u, n), Append(out, u[n]), u[n].lat, u[n].lng)

\* variant: the missing home base is not tested
NothingToOptimizeLengthOnly(cs, hb) == Len(cs) = 0

\* !homeBase || customers.length === 0
NothingToOptimize(cs, hb) == ~hb.defined \/ Len(cs) = 0

optimizeDayRoute(cs, hb) ==
    IF NothingToOptimize(cs, hb) THEN cs
    ELSE RouteLoop(cs, <<>>, hb.lat, hb.lng)

----------------------------------------------------------------------------
(* Proximity grouping, radius policy *)

Mean(vals) == SumSeq(vals) \div Len(vals)

MeanLat(ps) == Mean([i \in DOMAIN ps |-> ps[i].lat])
MeanLng(ps) == Mean([i \in DOMAIN ps |-> ps[i].lng])

\* variant: the distance is taken from the latest member of the group
\* instead of the seed
RECURSIVE CollectNearChained(_, _, _, _, _)
CollectNearChained(point, points, j, group, used) ==
    IF j > Len(points) THEN [group |-> group, used |-> used]
    ELSE LET otherPoint == points[j]
             last == group[Len(group)]
         IN IF otherPoint.id \in used
            THEN CollectNearChained(point, points, j + 1, group, used)
            ELSE IF calculateDistance(last.lat, last.lng,
                                      otherPoint.lat, otherPoint.lng)
                    <= HOUSE_GROUP_DISTANCE * Scale
                 THEN CollectNearChained(point, points, j + 1,
                                         Append(group, otherPoint),
                                         used \cup {otherPoint.id})
                 ELSE CollectNearChained(point, points, j + 1, group, used)

\* variant: points already in a group are collected again
RECURSIVE CollectNearAll(_, _, _, _, _)
CollectNearAll(point, points, j, group, used) ==
    IF j > Len(points) THEN [group |-> group, used |-> used]
    ELSE LET otherPoint == points[j]
         IN IF otherPoint.id = point.id
            THEN CollectNearAll(point, points, j + 1, group, used)
            ELSE IF calculateDistance(point.lat, point.lng,
                                      otherPoint.lat, otherPoint.lng)
                    <= HOUSE_GROUP_DISTANCE * Scale
                 THEN CollectNearAll(point, points, j + 1,
                                     Append(group, otherPoint),
                                     used \cup {otherPoint.id})
                 ELSE CollectNearAll(point, points, j + 1, group, used)

\* the inner points.forEach: collect the still unused points near the seed
RECURSIVE CollectNear(_, _, _, _, _)
CollectNear(point, points, j, group, used) ==
    IF j > Len(points) THEN [group |-> group, used |-> used]
    ELSE LET otherPoint == points[j]
         IN IF otherPoint.id \in used
            THEN CollectNear(point, points, j + 1, group, used)
            ELSE IF calculateDistance(point.lat, point.lng,
                                      otherPoint.lat, otherPoint.lng)
                    <= HOUSE_GROUP_DISTANCE * Scale
                 THEN CollectNear(point, points, j + 1,
                                  Append(group, otherPoint),
                                  used \cup {otherPoint.id})
                 ELSE CollectNear(point, points, j + 1, group, used)

\* the outer points.forEach
RECURSIVE HouseGroupLoop(_, _, _, _)
HouseGroupLoop(points, i, groups, used) ==
    IF i > Len(points) THEN groups
    ELSE LET point == points[i]
         IN IF point.id \in used
            THEN HouseGroupLoop(points, i + 1, groups, used)
            ELSE LET c == CollectNear(point, points, 1, <<point>>,
                                      used \cup {point.id})
                     g == [id |-> Len(groups),
                           customers |-> c.group,
                           centroid |-> [lat |-> MeanLat(c.group),
                                         lng |-> MeanLng(c.group)]]
                 IN HouseGroupLoop(points, i + 1, Append(groups, g), c.used)

identifyHouseGroups(points) == HouseGroupLoop(points, 1, <<>>, {})

----------------------------------------------------------------------------
(* K-means partitioning *)

RECURSIVE MinOf(_)
MinOf(S) == LET x == CHOOSE y \in S : TRUE
            IN IF S = {x} THEN x
               ELSE LET m == MinOf(S \ {x}) IN IF x < m THEN x ELSE m

RECURSIVE MaxOf(_)
MaxOf(S) == LET x == CHOOSE y \in S : TRUE
            IN IF S = {x} THEN x
               ELSE LET m == MaxOf(S \ {x}) IN IF x > m THEN x ELSE m

getBounds(points) ==
    [minLat |-> MinOf({points[i].lat : i \in DOMAIN points}),
     maxLat |-> MaxOf({points[i].lat : i \in DOMAIN points}),
     minLng |-> MinOf({points[i].lng : i \in DOMAIN points}),
     maxLng |-> MaxOf({points[i].lng : i \in DOMAIN points})]

\* bounds.min + (bounds.max - bounds.min) * Math.random(), Math.random() in
\* [0,1) drawn from the grid 0, 1/RandSteps, ..., (RandSteps-1)/RandSteps
RandomCentroids(bounds) ==
    {[lat |-> bounds.minLat
                + ((bounds.maxLat - bounds.minLat) * k) \div RandSteps,
      lng |-> bounds.minLng
                + ((bounds.maxLng - bounds.minLng) * l) \div RandSteps] :
        k \in 0..(RandSteps - 1), l \in 0..(RandSteps - 1)}

\* variant: with a home base the loop stops one centroid short
InitialCentroidsShort(points, n, hb) ==
    LET R == RandomCentroids(getBounds(points))
    IN IF hb.defined /\ n > 1
       THEN {[i \in 1..(n - 1) |->
                 IF i = 1 THEN [lat |-> hb.lat, lng |-> hb.lng]
                 ELSE r[i - 1]] : r \in SeqOfLen(R, n - 2)}
       ELSE SeqOfLen(R, n)

\* the set of initial centroid arrays the initialisation can produce
InitialCentroids(points, n, hb) ==
    LET R == RandomCentroids(getBounds(points))
    IN IF hb.defined /\ n > 1
       THEN {[i \in 1..n |-> IF i = 1 THEN [lat |-> hb.lat, lng |-> hb.lng]
                             ELSE r[i - 1]] : r \in SeqOfLen(R, n - 1)}
       ELSE SeqOfLen(R, n)

\* centroids.forEach inside the assignment: index (1-based) of the nearest
RECURSIVE ScanCentroids(_, _, _, _, _)
ScanCentroids(point, cs, i, minDistance, nearestClusterIndex) ==
    IF i > Len(cs) THEN nearestClusterIndex
    ELSE LET distance == calculateDistance(point.lat, point.lng,
                                           cs[i].lat, cs[i].lng)
         IN IF distance < minDistance
            THEN ScanCentroids(point, cs, i + 1, distance, i)
            ELSE ScanCentroids(point, cs, i + 1, minDistance,
                               nearestClusterIndex)

NearestCluster(point, cs) == ScanCentroids(point, cs, 1, Infinity, 1)

\* clusters after the assignment step of one iteration
AssignPoints(points, cs) ==
    [k \in DOMAIN cs |->
        [id |-> k - 1,
         centroid |-> cs[k],
         points |-> LET InK(p) == NearestCluster(p, cs) = k
                    IN SelectSeq(points, InK)]]

NewCentroid(cluster) ==
    IF Len(cluster.points) = 0 THEN cluster.centroid
    ELSE [lat |-> MeanLat(cluster.points), lng |-> MeanLng(cluster.points)]

NewCentroids(cl) == [k \in DOMAIN cl |-> NewCentroid(cl[k])]

Converged(cs, newCs) ==
    \A k \in DOMAIN cs :
        calculateDistance(cs[k].lat, cs[k].lng, newCs[k].lat, newCs[k].lng)
            < ConvergenceMiles * Scale

\* points.flatMap(groupPoint => group.customers)
RECURSIVE FlatMapCustomers(_)
FlatMapCustomers(gps) ==
    IF gps = <<>> THEN <<>>
    ELSE Head(gps).customers \o FlatMapCustomers(Tail(gps))

\* houseGroups.map(group => ({id, lat, lng, data: group}))
GroupPoints(groups) ==
    [i \in DOMAIN groups |->
        [id |-> groups[i].id,
         lat |-> groups[i].centroid.lat,
         lng |-> groups[i].centroid.lng,
         customers |-> groups[i].customers]]

\* variant: only the first customer of every group is taken over
ExpandClustersFirstCustomer(cl) ==
    [k \in DOMAIN cl |->
        [id |-> cl[k].id, centroid |-> cl[k].centroid,
         points |-> [j \in DOMAIN cl[k].points |->
                        cl[k].points[j].customers[1]]]]

ExpandClusters(cl) ==
    [k \in DOMAIN cl |->
        [id |-> cl[k].id, centroid |-> cl[k].centroid,
         points |-> FlatMapCustomers(cl[k].points)]]

----------------------------------------------------------------------------
(* Cost of a day *)

\* variant: the trip back to the home base is not counted
RECURSIVE RouteDriveTimeOneWay(_, _, _, _)
RouteDriveTimeOneWay(route, currentLat, currentLng, hb) ==
    IF route = <<>> THEN 0
    ELSE calculateDistance(currentLat, currentLng,
                           Head(route).lat, Head(route).lng) * 2
         + RouteDriveTimeOneWay(Tail(route), Head(route).lat,
                                Head(route).lng, hb)

\* the for loop over the optimized route plus the return trip; minutes in
\* units of 0.01/Scale (distance * 2, 2 minutes per mile)
RECURSIVE RouteDriveTime(_, _, _, _)
RouteDriveTime(route, currentLat, currentLng, hb) ==
    IF route = <<>>
    THEN calculateDistance(currentLat, currentLng, hb.lat, hb.lng) * 2
    ELSE calculateDistance(currentLat, currentLng,
                           Head(route).lat, Head(route).lng) * 2
         + RouteDriveTime(Tail(route), Head(route).lat, Head(route).lng, hb)

calculateClusterDriveTime(cluster, hb) ==
    IF Len(cluster.points) = 0 THEN 0
    ELSE RouteDriveTime(
             optimizeDayRoute([i \in DOMAIN cluster.points |->
                                  cluster.points[i].data], hb),
             hb.lat, hb.lng, hb)

calculateTotalDriveTime(cl, hb) ==
    SumSeq([k \in DOMAIN cl |-> calculateClusterDriveTime(cl[k], hb)])

----------------------------------------------------------------------------
(* Moves of the drive-time balancer.  Cluster indices are 1-based here:    *)
(* clusters[k] is the code's clusters[k-1] and has id k-1.                 *)

NoMove == [found |-> FALSE]

\* optimizeDayRoute not running: no working array
NoArray == [alias |-> FALSE, items |-> <<>>]

\* the inner for loop over allClusters: first qualifying target, 0 if none
RECURSIVE ScanTargets(_, _, _, _, _, _)
ScanTargets(cluster, allClusters, hb, direction, currentDriveTime, i) ==
    IF i > Len(allClusters) THEN 0
    ELSE IF allClusters[i].id = cluster.id
         THEN ScanTargets(cluster, allClusters, hb, direction,
                          currentDriveTime, i + 1)
         ELSE LET targetDriveTime ==
                      calculateClusterDriveTime(allClusters[i], hb)
              IN IF direction = "lighten" /\ targetDriveTime < currentDriveTime
                 THEN i
                 ELSE IF direction = "heavier"
                         /\ targetDriveTime > currentDriveTime
                      THEN i
                      ELSE ScanTargets(cluster, allClusters, hb, direction,
                                       currentDriveTime, i + 1)

\* the outer for loop over a list of candidate units (customers or groups)
RECURSIVE ScanUnits(_, _, _, _, _, _)
ScanUnits(units, c, cluster, allClusters, hb, direction) ==
    IF c > Len(units) THEN NoMove
    ELSE LET t == ScanTargets(cluster, allClusters, hb, direction,
                              calculateClusterDriveTime(cluster, hb), 1)
         IN IF t # 0
            THEN [found |-> TRUE, unit |-> units[c], targetCluster |-> t]
            ELSE ScanUnits(units, c + 1, cluster, allClusters, hb, direction)

findBestCustomerToMove(cluster, allClusters, hb, direction) ==
    ScanUnits(cluster.points, 1, cluster, allClusters, hb, direction)

findBestHouseGroupToMove(cluster, allClusters, groups, hb, direction) ==
    LET InCluster(group) ==
            \E i \in DOMAIN group.customers :
                \E j \in DOMAIN cluster.points :
                    cluster.points[j].id = group.customers[i].id
        clusterHouseGroups == SelectSeq(groups, InCluster)
    IN ScanUnits(clusterHouseGroups, 1, cluster, allClusters, hb, direction)

\* variant: the centroid is left as it was
updateClusterCentroidStale(cluster) == cluster

updateClusterCentroid(cluster) ==
    IF Len(cluster.points) = 0 THEN cluster
    ELSE [cluster EXCEPT !.centroid = [lat |-> MeanLat(cluster.points),
                                       lng |-> MeanLng(cluster.points)]]

RemoveId(points, id) == LET Keep(p) == p.id # id IN SelectSeq(points, Keep)

moveCustomerBetweenClusters(cl, fromIndex, toIndex, customer) ==
    LET removed == [cl EXCEPT ![fromIndex].points = RemoveId(@, customer.id)]
        added   == [removed EXCEPT ![toIndex].points = Append(@, customer)]
        upd1    == [added EXCEPT ![fromIndex] = updateClusterCentroid(@)]
    IN [upd1 EXCEPT ![toIndex] = updateClusterCentroid(@)]

RECURSIVE RemoveAll(_, _)
RemoveAll(points, members) ==
    IF members = <<>> THEN points
    ELSE RemoveAll(RemoveId(points, Head(members).id), Tail(members))

moveHouseGroupBetweenClusters(cl, fromIndex, toIndex, houseGroup) ==
    LET removed == [cl EXCEPT ![fromIndex].points =
                                  RemoveAll(@, houseGroup.customers)]
        added   == [removed EXCEPT ![toIndex].points =
                                  @ \o houseGroup.customers]
        upd1    == [added EXCEPT ![fromIndex] = updateClusterCentroid(@)]
    IN [upd1 EXCEPT ![toIndex] = updateClusterCentroid(@)]

----------------------------------------------------------------------------
(* balanceEmptyClusters *)

\* indices k in i..Len(cl) whose cluster satisfies the length test, in order
RECURSIVE IndicesWith(_, _, _)
IndicesWith(cl, i, minLen) ==
    IF i > Len(cl) THEN <<>>
    ELSE IF (IF minLen = 0 THEN Len(cl[i].points) = 0
                           ELSE Len(cl[i].points) > 1)
         THEN <<i>> \o IndicesWith(cl, i + 1, minLen)
         ELSE IndicesWith(cl, i + 1, minLen)

\* variant: the first populated cluster gives, whatever the sizes
MostPopulatedFirst(cl, populated, max) == max

\* populatedClusters.reduce((max, c) => c.points.length > max.points.length
\*                                      ? c : max)
RECURSIVE MostPopulated(_, _, _)
MostPopulated(cl, populated, max) ==
    IF populated = <<>> THEN max
    ELSE IF Len(cl[Head(populated)].points) > Len(cl[max].points)
         THEN MostPopulated(cl, Tail(populated), Head(populated))
         ELSE MostPopulated(cl, Tail(populated), max)

\* emptyClusters.forEach
RECURSIVE RepairLoop(_, _, _)
RepairLoop(cl, empties, populated) ==
    IF empties = <<>> THEN cl
    ELSE IF populated = <<>> THEN RepairLoop(cl, Tail(empties), populated)
    ELSE LET e == Head(empties)
             m == MostPopulated(cl, Tail(populated), Head(populated))
         IN IF Len(cl[m].points) > 1
            THEN LET point == cl[m].points[Len(cl[m].points)]
                     popped == [cl EXCEPT ![m].points =
                                   SubSeq(@, 1, Len(@) - 1)]
                     pushed == [popped EXCEPT
                                   ![e].points = Append(@, point),
                                   ![e].centroid = [lat |-> point.lat,
                                                    lng |-> point.lng]]
                 IN RepairLoop(pushed, Tail(empties), populated)
            ELSE RepairLoop(cl, Tail(empties), populated)

balanceEmptyClusters(cl) ==
    RepairLoop(cl, IndicesWith(cl, 1, 0), IndicesWith(cl, 1, 1))

----------------------------------------------------------------------------
(* Inputs of the model *)

Undefined == [defined |-> FALSE, lat |-> 0, lng |-> 0]

Home(lat) == [defined |-> TRUE, lat |-> lat * Scale, lng |-> 0]

\* latitudes of visits, in 0.01 mile: two within walking distance, one a
\* mile away
PlanLats == {0, 2, 100}

HomeChoices == {Undefined, Home(0), Home(60)}

\* lists of n visits with ids 1..n
VisitLists(lats, n) ==
    {[i \in 1..n |-> [id |-> i, lat |-> f[i] * Scale, lng |-> 0]] :
        f \in [1..n -> lats]}

VisitListsUpTo(lats, n) == UNION {VisitLists(lats, k) : k \in 0..n}

Variants == {"plain", "house"}

----------------------------------------------------------------------------
(* clusterCustomers as a state machine *)

InitPlan ==
    /\ variant \in Variants
    /\ customers \in VisitListsUpTo(PlanLats, MaxVisits)
    /\ numDays \in (-1)..MaxDays
    /\ homeBase \in HomeChoices
    /\ pc = "call"
    /\ houseGroups = <<>>
    /\ centroids = <<>>
    /\ clusters = <<>>
    /\ iterations = 0
    /\ attempts = 0
    /\ balanced = FALSE
    /\ idx = 0
    /\ totalTime = 0
    /\ lastMove = NoMove
    /\ visitMoved = FALSE
    /\ result = <<>>
    /\ unvisited = NoArray
    /\ optimized = <<>>
    /\ current = Undefined
    /\ threw = FALSE

\* customers.map(customer => ({id, lat, lng, data: customer}))
Points(cs) == [i \in DOMAIN cs |-> [id |-> cs[i].id, lat |-> cs[i].lat,
                                    lng |-> cs[i].lng, data |-> cs[i]]]

\* variant: numDays = 0 is let through
InvalidArgumentsNegativeOnly(cs, n) == Len(cs) = 0 \/ n < 0

\* customers.length === 0 || numDays <= 0
InvalidArguments(cs, n) == Len(cs) = 0 \/ n <= 0

\* variant: strictly fewer customers than days
StrictlyFewerCustomersThanDays(points, n) == Len(points) < n

\* points.length <= numDays
FewerCustomersThanDays(points, n) == Len(points) <= n

\* if (customers.length === 0 || numDays <= 0) return [];
ClusterCustomersEmpty ==
    /\ pc = "call"
    /\ InvalidArguments(customers, numDays)
    /\ result' = <<>>
    /\ pc' = "done"
    /\ UNCHANGED <<variant, customers, numDays, homeBase, houseGroups,
                   centroids, clusters, iterations, attempts, balanced, idx,
                   totalTime, lastMove, visitMoved, unvisited, optimized,
                   current, threw>>

\* if (points.length <= numDays) return one cluster per customer
ClusterCustomersDegenerate ==
    /\ pc = "call"
    /\ ~InvalidArguments(customers, numDays)
    /\ FewerCustomersThanDays(Points(customers), numDays)
    /\ result' = [i \in DOMAIN customers |->
                    [id |-> i - 1,
                     centroid |-> [lat |-> Points(customers)[i].lat,
                                   lng |-> Points(customers)[i].lng],
                     points |-> <<Points(customers)[i]>>]]
    /\ pc' = "done"
    /\ UNCHANGED <<variant, customers, numDays, homeBase, houseGroups,
                   centroids, clusters, iterations, attempts, balanced, idx,
                   totalTime, lastMove, visitMoved, unvisited, optimized,
                   current, threw>>

\* the points k-means runs on: the customers, or the group centroids
KPoints(v, cs, groups) ==
    IF v = "plain" THEN Points(cs) ELSE GroupPoints(groups)

\* grouping, then the centroid initialisation of performKMeansClustering
ClusterCustomersStart ==
    /\ pc = "call"
    /\ ~InvalidArguments(customers, numDays)
    /\ ~FewerCustomersThanDays(Points(customers), numDays)
    /\ houseGroups' = IF variant = "house"
                      THEN identifyHouseGroups(Points(customers))
                      ELSE <<>>
    /\ centroids' \in InitialCentroids(
                          KPoints(variant, customers, houseGroups'),
                          numDays, homeBase)
    /\ clusters' = <<>>
    /\ iterations' = 0
    /\ pc' = "kmeans"
    /\ UNCHANGED <<variant, customers, numDays, homeBase, attempts, balanced,
                   idx, totalTime, lastMove, visitMoved, result, unvisited,
                   optimized, current, threw>>

\* one pass of the do-while loop of performKMeansClustering; on exit the
\* clusters are returned (and expanded by performKMeansClusteringWithGroups)
KMeansIteration ==
    /\ pc = "kmeans"
    /\ LET assigned == AssignPoints(KPoints(variant, customers, houseGroups),
                                    centroids)
           newCentroids == NewCentroids(assigned)
           converged == Converged(centroids, newCentroids)
       IN /\ centroids' = newCentroids
          /\ iterations' = iterations + 1
          /\ IF converged \/ iterations + 1 >= maxIterations
             THEN /\ clusters' = IF variant = "plain" THEN assigned
                                 ELSE ExpandClusters(assigned)
                  /\ pc' = "balance"
             ELSE /\ clusters' = assigned
                  /\ pc' = "kmeans"
    /\ UNCHANGED <<variant, customers, numDays, homeBase, houseGroups,
                   attempts, balanced, idx, totalTime, lastMove, visitMoved,
                   result, unvisited, optimized, current, threw>>

\* variant: the empty-cluster repair also runs without a home base
BalanceNoHomeRepairs ==
    /\ pc = "balance"
    /\ ~homeBase.defined
    /\ clusters' = balanceEmptyClusters(clusters)
    /\ result' = clusters'
    /\ pc' = "done"
    /\ UNCHANGED <<variant, customers, numDays, homeBase, houseGroups,
                   centroids, iterations, attempts, balanced, idx, totalTime,
                   lastMove, visitMoved, unvisited, optimized, current,
                   threw>>

\* if (!homeBase) return clusters;
BalanceNoHome ==
    /\ pc = "balance"
    /\ ~homeBase.defined
    /\ result' = clusters
    /\ pc' = "done"
    /\ UNCHANGED <<variant, customers, numDays, homeBase, houseGroups,
                   centroids, clusters, iterations, attempts, balanced, idx,
                   totalTime, lastMove, visitMoved, unvisited, optimized,
                   current, threw>>

\* entry of balanceClustersByDriveTime(WithGroups): the target is computed
BalanceEnter ==
    /\ pc = "balance"
    /\ homeBase.defined
    /\ totalTime' = calculateTotalDriveTime(clusters, homeBase)
    /\ balanced' = FALSE
    /\ attempts' = 0
    /\ pc' = "while"
    /\ UNCHANGED <<variant, customers, numDays, homeBase, houseGroups,
                   centroids, clusters, iterations, idx, lastMove, visitMoved,
                   result, unvisited, optimized, current, threw>>

\* variant: while (!balanced) without the cap on attempts
AttemptStartUncapped ==
    /\ pc = "while"
    /\ ~balanced
    /\ balanced' = TRUE
    /\ attempts' = attempts + 1
    /\ idx' = 1
    /\ lastMove' = NoMove
    /\ pc' = IF Len(clusters) = 0 THEN "while" ELSE "for"
    /\ UNCHANGED <<variant, customers, numDays, homeBase, houseGroups,
                   centroids, clusters, iterations, totalTime, visitMoved,
                   result, unvisited, optimized, current, threw>>

\* while (!balanced && attempts < maxAttempts) { balanced = true; attempts++
AttemptStart ==
    /\ pc = "while"
    /\ ~balanced /\ attempts < maxAttempts
    /\ balanced' = TRUE
    /\ attempts' = attempts + 1
    /\ idx' = 1
    /\ lastMove' = NoMove
    /\ pc' = IF Len(clusters) = 0 THEN "while" ELSE "for"
    /\ UNCHANGED <<variant, customers, numDays, homeBase, houseGroups,
                   centroids, clusters, iterations, totalTime, visitMoved,
                   result, unvisited, optimized, current, threw>>

\* clusterDriveTime > targetDriveTimePerDay + tolerance, with
\* target = totalTime / clusters.length and tolerance = target * 0.15
TooHeavy(driveTime) == driveTime * Len(clusters) * 100 > totalTime * 115

\* clusterDriveTime < targetDriveTimePerDay - tolerance
TooLight(driveTime) == driveTime * Len(clusters) * 100 < totalTime * 85

\* the move, if any, that the body of the for loop applies for clusters[i]:
\* [found, from, to, unit]
StepMove(i) ==
    LET clusterDriveTime == calculateClusterDriveTime(clusters[i], homeBase)
        Find(direction) ==
            IF variant = "plain"
            THEN findBestCustomerToMove(clusters[i], clusters, homeBase,
                                        direction)
            ELSE findBestHouseGroupToMove(clusters[i], clusters, houseGroups,
                                          homeBase, direction)
    IN IF TooHeavy(clusterDriveTime)
       THEN LET m == Find("lighten")
            IN IF m.found
               THEN [found |-> TRUE, from |-> i, to |-> m.targetCluster,
                     unit |-> m.unit]
               ELSE NoMove
       ELSE IF TooLight(clusterDriveTime)
            THEN LET m == Find("heavier")
                 IN IF m.found
                    THEN [found |-> TRUE, from |-> m.targetCluster, to |-> i,
                          unit |-> m.unit]
                    ELSE NoMove
            ELSE NoMove

ApplyMove(m) ==
    IF variant = "plain"
    THEN moveCustomerBetweenClusters(clusters, m.from, m.to, m.unit)
    ELSE moveHouseGroupBetweenClusters(clusters, m.from, m.to, m.unit)

\* one pass of the body of for (let i = 0; i < clusters.length; i++)
BalanceStep ==
    /\ pc = "for"
    /\ idx <= Len(clusters)
    /\ LET m == StepMove(idx)
       IN /\ lastMove' = m
          /\ IF m.found
             THEN /\ clusters' = ApplyMove(m)
                  /\ balanced' = FALSE
                  /\ visitMoved' = (visitMoved \/ variant = "plain")
             ELSE UNCHANGED <<clusters, balanced, visitMoved>>
    /\ idx' = idx + 1
    /\ pc' = IF idx = Len(clusters) THEN "while" ELSE "for"
    /\ UNCHANGED <<variant, customers, numDays, homeBase, houseGroups,
                   centroids, iterations, attempts, totalTime, result,
                   unvisited, optimized, current, threw>>

\* loop exit: balanceEmptyClusters(clusters); return clusters;
RepairAndReturn ==
    /\ pc = "while"
    /\ ~(~balanced /\ attempts < maxAttempts)
    /\ clusters' = balanceEmptyClusters(clusters)
    /\ result' = clusters'
    /\ lastMove' = NoMove
    /\ pc' = "done"
    /\ UNCHANGED <<variant, customers, numDays, homeBase, houseGroups,
                   centroids, iterations, attempts, balanced, idx, totalTime,
                   visitMoved, unvisited, optimized, current, threw>>

NextPlan ==
    \/ ClusterCustomersEmpty
    \/ ClusterCustomersDegenerate
    \/ ClusterCustomersStart
    \/ KMeansIteration
    \/ BalanceNoHome
    \/ BalanceEnter
    \/ AttemptStart
    \/ BalanceStep
    \/ RepairAndReturn

Spec == InitPlan /\ [][NextPlan]_vars

----------------------------------------------------------------------------
(* optimizeDayRoute as a state machine, one step per pass of its loop *)

\* latitudes with two visits at equal distance on either side of Home(0)
RouteLats == {-2, 0, 2, 5}

\* variant: const unvisited = customers, the caller's array itself
NoCopy(arr) == [alias |-> TRUE, items |-> arr]

\* const unvisited = [...customers]: a fresh array, not the caller's
SpreadCopy(arr) == [alias |-> FALSE, items |-> arr]

InitRoute ==
    /\ variant = "route"
    /\ customers \in VisitListsUpTo(RouteLats, MaxVisits)
    /\ homeBase \in HomeChoices
    /\ pc = "route_call"
    /\ numDays = 0
    /\ houseGroups = <<>>
    /\ centroids = <<>>
    /\ clusters = <<>>
    /\ iterations = 0
    /\ attempts = 0
    /\ balanced = FALSE
    /\ idx = 0
    /\ totalTime = 0
    /\ lastMove = NoMove
    /\ visitMoved = FALSE
    /\ result = <<>>
    /\ unvisited = NoArray
    /\ optimized = <<>>
    /\ current = Undefined
    /\ threw = FALSE

\* if (!homeBase || customers.length === 0) return customers;
RouteReturnInput ==
    /\ pc = "route_call"
    /\ NothingToOptimize(customers, homeBase)
    /\ result' = customers
    /\ pc' = "done"
    /\ UNCHANGED <<customers, homeBase, unvisited, optimized, current, threw>>
    /\ UNCHANGED planVars

RouteStart ==
    /\ pc = "route_call"
    /\ ~NothingToOptimize(customers, homeBase)
    /\ unvisited' = SpreadCopy(customers)
    /\ optimized' = <<>>
    /\ current' = homeBase
    /\ pc' = "route_loop"
    /\ UNCHANGED <<customers, homeBase, result, threw>>
    /\ UNCHANGED planVars

\* one pass of while (unvisited.length > 0); splice changes the caller's
\* array too if unvisited is that array
RouteStep ==
    /\ pc = "route_loop"
    /\ Len(unvisited.items) > 0
    /\ LET nearestIndex == NearestIndex(current.lat, current.lng,
                                        unvisited.items)
           nearestCustomer == unvisited.items[nearestIndex]
       IN /\ unvisited' = [unvisited EXCEPT !.items = Splice(@, nearestIndex)]
          /\ optimized' = Append(optimized, nearestCustomer)
          /\ current' = [defined |-> TRUE, lat |-> nearestCustomer.lat,
                         lng |-> nearestCustomer.lng]
    /\ customers' = IF unvisited.alias THEN unvisited'.items ELSE customers
    /\ iterations' = iterations + 1
    /\ UNCHANGED <<pc, homeBase, result, threw>>
    /\ UNCHANGED <<variant, numDays, houseGroups, centroids, clusters,
                   attempts, balanced, idx, totalTime, lastMove, visitMoved>>

\* return optimized;
RouteReturn ==
    /\ pc = "route_loop"
    /\ Len(unvisited.items) = 0
    /\ result' = optimized
    /\ pc' = "done"
    /\ UNCHANGED <<customers, homeBase, unvisited, optimized, current, threw>>
    /\ UNCHANGED planVars

NextRoute ==
    \/ RouteReturnInput
    \/ RouteStart
    \/ RouteStep
    \/ RouteReturn

SpecRoute == InitRoute /\ [][NextRoute]_vars

----------------------------------------------------------------------------
(* Proximity grouping, street policy.                                      *)
(* An address is a list of tokens, the maximal runs of non-blank           *)
(* characters of the text with a comma as a token of its own.  A token of  *)
(* decimal digits carries its digits; any other token carries its text.    *)
(* A missing address (undefined) has defined = FALSE.                      *)

Num(ds) == [digits |-> ds, word |-> ""]
Word(w) == [digits |-> <<>>, word |-> w]
Address(toks) == [defined |-> TRUE, tokens |-> toks]
Missing == [defined |-> FALSE, tokens |-> <<>>]

\* String.prototype.toLowerCase on the words of the model's alphabet
LowerWord(w) ==
    CASE w = "Main" -> "main"
      [] w = "St" -> "st"
      [] w = "N" -> "n"
      [] w = "Oak" -> "oak"
      [] w = "PO" -> "po"
      [] w = "Box" -> "box"
      [] w = "Springfield" -> "springfield"
      [] OTHER -> w

toLowerCase(toks) ==
    [i \in DOMAIN toks |-> [toks[i] EXCEPT !.word = LowerWord(@)]]

\* parseInt of a string of decimal digits
RECURSIVE parseInt(_)
parseInt(ds) ==
    IF ds = <<>> THEN 0
    ELSE parseInt(SubSeq(ds, 1, Len(ds) - 1)) * 10 + ds[Len(ds)]

Directions == {"north", "south", "east", "west", "n", "s", "e", "w"}

StreetTypes == {"st", "street", "ave", "avenue", "rd", "road", "dr", "drive",
                "ln", "lane", "blvd", "boulevard", "ct", "court", "pl",
                "place", "way", "cir", "circle"}

IsWordIn(tok, S) == tok.digits = <<>> /\ tok.word \in S

\* .replace(/^(north|...|w)\s+/i, ''): a leading word followed by blanks
StripPrefix(toks, S) ==
    IF Len(toks) >= 2 /\ IsWordIn(toks[1], S) THEN Tail(toks) ELSE toks

\* .replace(/\s+(...)$/i, ''): a final word preceded by blanks
StripSuffix(toks, S) ==
    IF Len(toks) >= 2 /\ IsWordIn(toks[Len(toks)], S)
    THEN SubSeq(toks, 1, Len(toks) - 1)
    ELSE toks

\* (.+?)(?:\s*,|$): the shortest non-empty text that is followed by a
\* comma or by the end; k is the number of tokens taken so far
RECURSIVE LazyUntilComma(_, _)
LazyUntilComma(rest, k) ==
    IF k >= Len(rest) THEN rest
    ELSE IF rest[k + 1] = Word(",") THEN SubSeq(rest, 1, k)
         ELSE LazyUntilComma(rest, k + 1)

\* parseAddress on a string; null is [ok |-> FALSE]
parseAddress(address) ==
    LET normalized == toLowerCase(address.tokens)
    IN IF Len(normalized) >= 2 /\ normalized[1].digits # <<>>
       THEN [ok |-> TRUE,
             houseNumber |-> parseInt(normalized[1].digits),
             streetName |->
                 StripSuffix(
                     StripSuffix(
                         StripPrefix(LazyUntilComma(Tail(normalized), 1),
                                     Directions),
                         Directions),
                     StreetTypes)]
       ELSE [ok |-> FALSE]

\* index of the entry of the street map with this key, 0 if there is none
RECURSIVE KeyIndex(_, _, _)
KeyIndex(streetMap, key, i) ==
    IF i > Len(streetMap) THEN 0
    ELSE IF streetMap[i].key = key THEN i
         ELSE KeyIndex(streetMap, key, i + 1)

\* first points.forEach: the Map from street name to customers, in
\* insertion order of the keys
RECURSIVE BuildStreetMap(_, _, _)
BuildStreetMap(points, i, streetMap) ==
    IF i > Len(points) THEN streetMap
    ELSE LET parsed == parseAddress(points[i].data.address)
         IN IF parsed.ok
            THEN LET k == KeyIndex(streetMap, parsed.streetName, 1)
                 IN IF k = 0
                    THEN BuildStreetMap(points, i + 1,
                             Append(streetMap,
                                    [key |-> parsed.streetName,
                                     customers |-> <<points[i]>>]))
                    ELSE BuildStreetMap(points, i + 1,
                             [streetMap EXCEPT
                                 ![k].customers = Append(@, points[i])])
            ELSE BuildStreetMap(points, i + 1, streetMap)

\* insertion of an item into a list sorted by house number, after the
\* items that do not compare greater (Array.prototype.sort is stable)
RECURSIVE InsertSorted(_, _)
InsertSorted(sorted, item) ==
    IF sorted = <<>> THEN <<item>>
    ELSE IF Head(sorted).parsed.houseNumber - item.parsed.houseNumber > 0
         THEN <<item>> \o sorted
         ELSE <<Head(sorted)>> \o InsertSorted(Tail(sorted), item)

RECURSIVE SortByHouseNumber(_, _)
SortByHouseNumber(items, sorted) ==
    IF items = <<>> THEN sorted
    ELSE SortByHouseNumber(Tail(items), InsertSorted(sorted, Head(items)))

MakeGroup(groups, members) ==
    [id |-> Len(groups),
     customers |-> members,
     centroid |-> [lat |-> MeanLat(members), lng |-> MeanLng(members)]]

\* variant: a difference of exactly 10 starts a new group
RECURSIVE ChainStreetStrict(_, _, _, _)
ChainStreetStrict(sorted, groups, currentGroup, lastHouseNumber) ==
    IF sorted = <<>>
    THEN IF Len(currentGroup) > 0
         THEN Append(groups, MakeGroup(groups, currentGroup))
         ELSE groups
    ELSE LET customer == Head(sorted).customer
             houseNumber == Head(sorted).parsed.houseNumber
         IN IF Len(currentGroup) = 0
               \/ Abs(houseNumber - lastHouseNumber) < 10
            THEN ChainStreetStrict(Tail(sorted), groups,
                                   Append(currentGroup, customer),
                                   houseNumber)
            ELSE ChainStreetStrict(Tail(sorted),
                                   Append(groups,
                                          MakeGroup(groups, currentGroup)),
                                   <<customer>>, houseNumber)

\* sorted.forEach and the final group of one street
RECURSIVE ChainStreet(_, _, _, _)
ChainStreet(sorted, groups, currentGroup, lastHouseNumber) ==
    IF sorted = <<>>
    THEN IF Len(currentGroup) > 0
         THEN Append(groups, MakeGroup(groups, currentGroup))
         ELSE groups
    ELSE LET customer == Head(sorted).customer
             houseNumber == Head(sorted).parsed.houseNumber
         IN IF Len(currentGroup) = 0
               \/ Abs(houseNumber - lastHouseNumber) <= 10
            THEN ChainStreet(Tail(sorted), groups,
                             Append(currentGroup, customer), houseNumber)
            ELSE ChainStreet(Tail(sorted),
                             IF Len(currentGroup) > 0
                             THEN Append(groups, MakeGroup(groups, currentGroup))
                             ELSE groups,
                             <<customer>>, houseNumber)

\* streetMap.forEach
RECURSIVE StreetLoop(_, _, _)
StreetLoop(streetMap, i, groups) ==
    IF i > Len(streetMap) THEN groups
    ELSE LET streetCustomers == streetMap[i].customers
         IN IF Len(streetCustomers) = 1
            THEN StreetLoop(streetMap, i + 1,
                     Append(groups, MakeGroup(groups, streetCustomers)))
            ELSE LET items == [j \in DOMAIN streetCustomers |->
                                 [customer |-> streetCustomers[j],
                                  parsed |-> parseAddress(
                                      streetCustomers[j].data.address)]]
                     IsParsed(item) == item.parsed.ok
                     sorted == SortByHouseNumber(SelectSeq(items, IsParsed),
                                                 <<>>)
                 IN StreetLoop(streetMap, i + 1,
                               ChainStreet(sorted, groups, <<>>, -1))

\* address.toLowerCase() on a value that is not a string: TypeError
Throws(points) == \E i \in DOMAIN points : ~points[i].data.address.defined

identifyStreetGroups(points) ==
    StreetLoop(BuildStreetMap(points, 1, <<>>), 1, <<>>)

----------------------------------------------------------------------------
(* The two grouping functions under test *)

\* latitudes in 0.01 mile: 0.06 and 0.1 mile apart (within the radius),
\* 0.16 mile apart (outside)
GroupLats == {0, 6, 10, 16}

AddressChoices ==
    {Address(<<Num(<<1, 2>>), Word("Main"), Word("St")>>),
     Address(<<Num(<<1, 8>>), Word("main"), Word("street"), Word(","),
               Word("Springfield")>>),
     Address(<<Num(<<2, 2>>), Word("Main"), Word("St")>>),
     Address(<<Num(<<4, 0>>), Word("N"), Word("Main"), Word("St")>>),
     Address(<<Num(<<7>>), Word("Oak"), Word("ave")>>),
     Address(<<Word("PO"), Word("Box"), Num(<<9>>)>>),
     Missing}

\* visits with ids 1..n, 0.06 mile apart, with an address each
StreetVisitLists(n) ==
    {[i \in 1..n |-> [id |-> i, lat |-> 6 * (i - 1) * Scale, lng |-> 0,
                      address |-> f[i]]] : f \in [1..n -> AddressChoices]}

InitGroups ==
    /\ \/ /\ variant = "radius"
          /\ customers \in VisitListsUpTo(GroupLats, MaxVisits)
       \/ /\ variant = "street"
          /\ customers \in UNION {StreetVisitLists(n) : n \in 0..MaxVisits}
    /\ pc = "group_call"
    /\ homeBase = Undefined
    /\ numDays = 0
    /\ houseGroups = <<>>
    /\ centroids = <<>>
    /\ clusters = <<>>
    /\ iterations = 0
    /\ attempts = 0
    /\ balanced = FALSE
    /\ idx = 0
    /\ totalTime = 0
    /\ lastMove = NoMove
    /\ visitMoved = FALSE
    /\ result = <<>>
    /\ unvisited = NoArray
    /\ optimized = <<>>
    /\ current = Undefined
    /\ threw = FALSE

IdentifyHouseGroupsCall ==
    /\ pc = "group_call"
    /\ variant = "radius"
    /\ houseGroups' = identifyHouseGroups(Points(customers))
    /\ result' = houseGroups'
    /\ pc' = "done"
    /\ UNCHANGED <<variant, customers, numDays, homeBase, centroids, clusters,
                   iterations, attempts, balanced, idx, totalTime, lastMove,
                   visitMoved, unvisited, optimized, current, threw>>

IdentifyStreetGroupsCall ==
    /\ pc = "group_call"
    /\ variant = "street"
    /\ IF Throws(Points(customers))
       THEN /\ threw' = TRUE
            /\ UNCHANGED <<houseGroups, result>>
       ELSE /\ houseGroups' = identifyStreetGroups(Points(customers))
            /\ result' = houseGroups'
            /\ UNCHANGED threw
    /\ pc' = "done"
    /\ UNCHANGED <<variant, customers, numDays, homeBase, centroids, clusters,
                   iterations, attempts, balanced, idx, totalTime, lastMove,
                   visitMoved, unvisited, optimized, current>>

NextGroups ==
    \/ IdentifyHouseGroupsCall
    \/ IdentifyStreetGroupsCall

SpecGroups == InitGroups /\ [][NextGroups]_vars

----------------------------------------------------------------------------
(* The work-time revision (street groups, work-time k-means, work-time      *)
(* balancing).  Service minutes are plain integers; a work time is in the   *)
(* unit of drive times, 0.01/Scale minute.                                  *)

BaseWorkTime == 60
LargeWorkTime == 180
ExtraWorkTime == 60
DefaultWorkTime == 60
PenaltyStart == 300
ConvergenceMilesWork == 5    \* 0.05 mile, in 0.01 mile
maxIterationsWork == 50

Max(a, b) == IF a > b THEN a ELSE b

\* a text field of a customer: customer.f?.toLowerCase() || ''
LowerText(field) == IF field.defined THEN toLowerCase(field.tokens) ELSE <<>>

\* String.prototype.includes on one word of the model's alphabet
WordIncludes(w, indicator) ==
    w = indicator \/ (w = "farmington" /\ indicator = "farm")

Includes(toks, indicator) ==
    \E i \in DOMAIN toks : WordIncludes(toks[i].word, indicator)

largePropertyIndicators ==
    {"estate", "ranch", "farm", "acreage", "acres", "mansion", "compound",
     "commercial", "business", "office", "warehouse", "industrial",
     "church", "school", "hospital", "hotel", "resort"}

estimateCustomerWorkTime(customer) ==
    LET address == LowerText(customer.address)
        notes == LowerText(customer.notes)
        name == LowerText(customer.name)
        isLargeProperty ==
            \E indicator \in largePropertyIndicators :
                \/ Includes(address, indicator)
                \/ Includes(notes, indicator)
                \/ Includes(name, indicator)
        workTime == IF isLargeProperty THEN LargeWorkTime ELSE BaseWorkTime
    IN IF Includes(notes, "large") \/ Includes(notes, "big")
          \/ Includes(notes, "huge")
       THEN workTime + ExtraWorkTime
       ELSE workTime

\* customers.map(customer => ({id, lat, lng,
\*     data: {...customer, estimatedWorkTime: estimateCustomerWorkTime(customer)}}))
WorkPoints(cs) ==
    [i \in DOMAIN cs |->
        [id |-> cs[i].id, lat |-> cs[i].lat, lng |-> cs[i].lng,
         data |-> [f \in DOMAIN cs[i] \cup {"estimatedWorkTime"} |->
                      IF f = "estimatedWorkTime"
                      THEN estimateCustomerWorkTime(cs[i])
                      ELSE cs[i][f]]]]

\* streetGroups.map(group => ({id, lat, lng, data: group}))
StreetGroupPoints(groups) ==
    [i \in DOMAIN groups |->
        [id |-> groups[i].id,
         lat |-> groups[i].centroid.lat,
         lng |-> groups[i].centroid.lng,
         data |-> groups[i]]]

\* p.data.estimatedWorkTime || 60, in minutes
WorkTimeOrDefault(data) ==
    IF "estimatedWorkTime" \in DOMAIN data /\ data.estimatedWorkTime # 0
    THEN data.estimatedWorkTime
    ELSE DefaultWorkTime

\* points.reduce((sum, p) => sum + (p.data.estimatedWorkTime || 60), 0)
ServiceMinutes(points) ==
    SumSeq([j \in DOMAIN points |-> WorkTimeOrDefault(points[j].data)])

\* variant: the score is the distance alone
RECURSIVE ScanScoresDistanceOnly(_, _, _, _, _, _)
ScanScoresDistanceOnly(point, cs, cl, i, minScore, nearestClusterIndex) ==
    IF i > Len(cs) THEN nearestClusterIndex
    ELSE LET score == calculateDistance(point.lat, point.lng,
                                        cs[i].lat, cs[i].lng)
         IN IF score < minScore
            THEN ScanScoresDistanceOnly(point, cs, cl, i + 1, score, i)
            ELSE ScanScoresDistanceOnly(point, cs, cl, i + 1, minScore,
                                        nearestClusterIndex)

\* centroids.forEach inside the assignment: score = distance (miles) +
\* max(0, currentWorkTime - 300) / 100, here in 0.01/Scale mile
RECURSIVE ScanScores(_, _, _, _, _, _)
ScanScores(point, cs, cl, i, minScore, nearestClusterIndex) ==
    IF i > Len(cs) THEN nearestClusterIndex
    ELSE LET distance == calculateDistance(point.lat, point.lng,
                                           cs[i].lat, cs[i].lng)
             currentWorkTime == ServiceMinutes(cl[i].points)
             workTimePenalty == Max(0, currentWorkTime - PenaltyStart) * Scale
             score == distance + workTimePenalty
         IN IF score < minScore
            THEN ScanScores(point, cs, cl, i + 1, score, i)
            ELSE ScanScores(point, cs, cl, i + 1, minScore,
                            nearestClusterIndex)

\* points.forEach of the assignment: the clusters fill up point by point
RECURSIVE AssignLoop(_, _, _, _)
AssignLoop(points, j, cs, cl) ==
    IF j > Len(points) THEN cl
    ELSE LET k == ScanScores(points[j], cs, cl, 1, Infinity, 1)
         IN AssignLoop(points, j + 1, cs,
                       [cl EXCEPT ![k].points = Append(@, points[j])])

AssignByScore(points, cs) ==
    AssignLoop(points, 1, cs,
               [k \in DOMAIN cs |->
                   [id |-> k - 1, centroid |-> cs[k], points |-> <<>>]])

\* indices of the clusters with no point (wanted = 0) or some point, in order
RECURSIVE IndicesEmptyOrNot(_, _, _)
IndicesEmptyOrNot(cl, i, empty) ==
    IF i > Len(cl) THEN <<>>
    ELSE IF (Len(cl[i].points) = 0) = empty
         THEN <<i>> \o IndicesEmptyOrNot(cl, i + 1, empty)
         ELSE IndicesEmptyOrNot(cl, i + 1, empty)

\* populatedClusters.reduce: the first cluster with the greatest work time
RECURSIVE Heaviest(_, _, _)
Heaviest(cl, populated, max) ==
    IF populated = <<>> THEN max
    ELSE IF ServiceMinutes(cl[Head(populated)].points)
               > ServiceMinutes(cl[max].points)
         THEN Heaviest(cl, Tail(populated), Head(populated))
         ELSE Heaviest(cl, Tail(populated), max)

\* emptyClusters.forEach of the redistribution inside the k-means loop
RECURSIVE RedistributeLoop(_, _, _)
RedistributeLoop(cl, empties, populated) ==
    IF empties = <<>> THEN cl
    ELSE IF Len(populated) > 0
         THEN LET e == Head(empties)
                  h == Heaviest(cl, Tail(populated), Head(populated))
              IN IF Len(cl[h].points) > 1
                 THEN LET pointToMove == cl[h].points[Len(cl[h].points)]
                          popped == [cl EXCEPT ![h].points =
                                        SubSeq(@, 1, Len(@) - 1)]
                      IN RedistributeLoop(
                             [popped EXCEPT ![e].points =
                                                Append(@, pointToMove)],
                             Tail(empties), populated)
                 ELSE RedistributeLoop(cl, Tail(empties), populated)
         ELSE RedistributeLoop(cl, Tail(empties), populated)

Redistribute(cl) ==
    RedistributeLoop(cl, IndicesEmptyOrNot(cl, 1, TRUE),
                     IndicesEmptyOrNot(cl, 1, FALSE))

ConvergedWork(cs, newCs) ==
    \A k \in DOMAIN cs :
        calculateDistance(cs[k].lat, cs[k].lng, newCs[k].lat, newCs[k].lng)
            < ConvergenceMilesWork * Scale

\* cluster.points.flatMap(groupPoint => groupPoint.data.customers)
RECURSIVE FlatMapData(_)
FlatMapData(gps) ==
    IF gps = <<>> THEN <<>>
    ELSE Head(gps).data.customers \o FlatMapData(Tail(gps))

ExpandWorkClusters(cl) ==
    [k \in DOMAIN cl |->
        [id |-> cl[k].id, centroid |-> cl[k].centroid,
         points |-> FlatMapData(cl[k].points)]]

\* drive time + service time, in 0.01/Scale minute
calculateClusterWorkTime(cluster, hb) ==
    IF Len(cluster.points) = 0 THEN 0
    ELSE calculateClusterDriveTime(cluster, hb)
         + ServiceMinutes(cluster.points) * 100 * Scale

calculateTotalWorkTime(cl, hb) ==
    SumSeq([k \in DOMAIN cl |-> calculateClusterWorkTime(cl[k], hb)])

\* workTimes.indexOf(value): the first index (1-based) holding the value
RECURSIVE IndexOf(_, _, _)
IndexOf(s, v, i) ==
    IF i > Len(s) THEN 0
    ELSE IF s[i] = v THEN i ELSE IndexOf(s, v, i + 1)

\* the inner for loop of findBestHouseGroupToMoveByWorkTime
RECURSIVE ScanTargetsByWorkTime(_, _, _, _, _, _)
ScanTargetsByWorkTime(cluster, allClusters, hb, direction, currentWorkTime, i) ==
    IF i > Len(allClusters) THEN 0
    ELSE IF allClusters[i].id = cluster.id
         THEN ScanTargetsByWorkTime(cluster, allClusters, hb, direction,
                                    currentWorkTime, i + 1)
         ELSE LET targetWorkTime ==
                      calculateClusterWorkTime(allClusters[i], hb)
              IN IF direction = "lighten" /\ targetWorkTime < currentWorkTime
                 THEN i
                 ELSE IF direction = "heavier"
                         /\ targetWorkTime > currentWorkTime
                      THEN i
                      ELSE ScanTargetsByWorkTime(cluster, allClusters, hb,
                                                 direction, currentWorkTime,
                                                 i + 1)

findBestHouseGroupToMoveByWorkTime(cluster, allClusters, groups, hb, direction) ==
    LET InCluster(group) ==
            \E i \in DOMAIN group.customers :
                \E j \in DOMAIN cluster.points :
                    cluster.points[j].id = group.customers[i].id
        clusterHouseGroups == SelectSeq(groups, InCluster)
        t == ScanTargetsByWorkTime(cluster, allClusters, hb, direction,
                                   calculateClusterWorkTime(cluster, hb), 1)
    IN IF Len(clusterHouseGroups) > 0 /\ t # 0
       THEN [found |-> TRUE, unit |-> clusterHouseGroups[1],
             targetCluster |-> t]
       ELSE NoMove

\* the inner for loop of findBestCustomerToMoveByWorkTime for one customer
RECURSIVE ScanCustomerTargets(_, _, _, _, _, _, _)
ScanCustomerTargets(cluster, allClusters, hb, direction, currentWorkTime, customerWorkTime, i) ==
    IF i > Len(allClusters) THEN 0
    ELSE IF allClusters[i].id = cluster.id
         THEN ScanCustomerTargets(cluster, allClusters, hb, direction,
                                  currentWorkTime, customerWorkTime, i + 1)
         ELSE LET targetWorkTime ==
                      calculateClusterWorkTime(allClusters[i], hb)
              IN IF direction = "lighten"
                    /\ targetWorkTime + customerWorkTime
                          < currentWorkTime - customerWorkTime
                 THEN i
                 ELSE IF direction = "heavier"
                         /\ targetWorkTime > currentWorkTime
                      THEN i
                      ELSE ScanCustomerTargets(cluster, allClusters, hb,
                                               direction, currentWorkTime,
                                               customerWorkTime, i + 1)

\* the outer for loop over cluster.points
RECURSIVE ScanCustomers(_, _, _, _, _)
ScanCustomers(c, cluster, allClusters, hb, direction) ==
    IF c > Len(cluster.points) THEN NoMove
    ELSE LET customer == cluster.points[c]
             t == ScanCustomerTargets(
                      cluster, allClusters, hb, direction,
                      calculateClusterWorkTime(cluster, hb),
                      WorkTimeOrDefault(customer.data) * 100 * Scale, 1)
         IN IF t # 0
            THEN [found |-> TRUE, unit |-> customer, targetCluster |-> t]
            ELSE ScanCustomers(c + 1, cluster, allClusters, hb, direction)

findBestCustomerToMoveByWorkTime(cluster, allClusters, hb, direction) ==
    ScanCustomers(1, cluster, allClusters, hb, direction)

----------------------------------------------------------------------------
(* clusterCustomers of the work-time revision as a state machine *)

\* a customer record without its id
Site(lat, address, notes) ==
    [lat |-> lat * Scale, lng |-> 0, address |-> address, notes |-> notes,
     name |-> Missing]

\* two houses close to the home base on streets of their own, two
\* neighbours on Main St 16 miles out, and a large property
WorkSites ==
    <<Site(10, Address(<<Num(<<7>>), Word("Oak"), Word("ave")>>), Missing),
      Site(150, Address(<<Num(<<3>>), Word("elm"), Word("rd")>>), Missing),
      Site(1600, Address(<<Num(<<1, 2>>), Word("Main"), Word("St")>>),
           Missing),
      Site(1600, Address(<<Num(<<1, 8>>), Word("main"), Word("street"),
                           Word(","), Word("Springfield")>>), Missing),
      Site(60, Address(<<Num(<<4, 0>>), Word("farmington"), Word("rd")>>),
           Address(<<Word("large"), Word("yard")>>))>>

\* lists of n different sites, with ids 1..n
WorkVisitLists(n) ==
    {[i \in 1..n |->
         [f \in DOMAIN WorkSites[1] \cup {"id"} |->
             IF f = "id" THEN i ELSE WorkSites[pick[i]][f]]] :
        pick \in {q \in [1..n -> DOMAIN WorkSites] :
                     \A i, j \in 1..n : i # j => q[i] # q[j]}}

InitWork ==
    /\ variant = "work"
    /\ customers \in UNION {WorkVisitLists(n) : n \in 0..MaxWorkVisits}
    /\ numDays \in 0..MaxDays
    /\ homeBase \in {Undefined, Home(50)}
    /\ pc = "work_call"
    /\ houseGroups = <<>>
    /\ centroids = <<>>
    /\ clusters = <<>>
    /\ iterations = 0
    /\ attempts = 0
    /\ balanced = FALSE
    /\ idx = 0
    /\ totalTime = 0
    /\ lastMove = NoMove
    /\ visitMoved = FALSE
    /\ result = <<>>
    /\ unvisited = NoArray
    /\ optimized = <<>>
    /\ current = Undefined
    /\ threw = FALSE

\* if (customers.length === 0 || numDays <= 0) return [];
WorkEmpty ==
    /\ pc = "work_call"
    /\ InvalidArguments(customers, numDays)
    /\ result' = <<>>
    /\ pc' = "done"
    /\ UNCHANGED <<variant, customers, numDays, homeBase, houseGroups,
                   centroids, clusters, iterations, attempts, balanced, idx,
                   totalTime, lastMove, visitMoved, unvisited, optimized,
                   current, threw>>

\* if (points.length <= numDays) return one cluster per customer
WorkDegenerate ==
    /\ pc = "work_call"
    /\ ~InvalidArguments(customers, numDays)
    /\ FewerCustomersThanDays(WorkPoints(customers), numDays)
    /\ result' = [i \in DOMAIN customers |->
                    [id |-> i - 1,
                     centroid |-> [lat |-> WorkPoints(customers)[i].lat,
                                   lng |-> WorkPoints(customers)[i].lng],
                     points |-> <<WorkPoints(customers)[i]>>]]
    /\ pc' = "done"
    /\ UNCHANGED <<variant, customers, numDays, homeBase, houseGroups,
                   centroids, clusters, iterations, attempts, balanced, idx,
                   totalTime, lastMove, visitMoved, unvisited, optimized,
                   current, threw>>

\* identifyStreetGroups, then the centroid initialisation of k-means
WorkStart ==
    /\ pc = "work_call"
    /\ ~InvalidArguments(customers, numDays)
    /\ ~FewerCustomersThanDays(WorkPoints(customers), numDays)
    /\ houseGroups' = identifyStreetGroups(WorkPoints(customers))
    /\ centroids' \in InitialCentroids(StreetGroupPoints(houseGroups'),
                                       numDays, homeBase)
    /\ clusters' = <<>>
    /\ iterations' = 0
    /\ pc' = "work_kmeans"
    /\ UNCHANGED <<variant, customers, numDays, homeBase, attempts, balanced,
                   idx, totalTime, lastMove, visitMoved, result, unvisited,
                   optimized, current, threw>>

\* one pass of the do-while loop: assignment by score, redistribution into
\* empty clusters, new centroids, convergence test; on exit the clusters
\* are expanded by performKMeansClusteringWithGroups
WorkKMeansIteration ==
    /\ pc = "work_kmeans"
    /\ LET assigned == Redistribute(
                           AssignByScore(StreetGroupPoints(houseGroups),
                                         centroids))
           newCentroids == NewCentroids(assigned)
           converged == ConvergedWork(centroids, newCentroids)
       IN /\ centroids' = newCentroids
          /\ iterations' = iterations + 1
          /\ IF converged \/ iterations + 1 >= maxIterationsWork
             THEN /\ clusters' = ExpandWorkClusters(assigned)
                  /\ pc' = "work_balance"
             ELSE /\ clusters' = assigned
                  /\ pc' = "work_kmeans"
    /\ UNCHANGED <<variant, customers, numDays, homeBase, houseGroups,
                   attempts, balanced, idx, totalTime, lastMove, visitMoved,
                   result, unvisited, optimized, current, threw>>

\* if (!homeBase) return clusters;
WorkBalanceNoHome ==
    /\ pc = "work_balance"
    /\ ~homeBase.defined
    /\ result' = clusters
    /\ pc' = "done"
    /\ UNCHANGED <<variant, customers, numDays, homeBase, houseGroups,
                   centroids, clusters, iterations, attempts, balanced, idx,
                   totalTime, lastMove, visitMoved, unvisited, optimized,
                   current, threw>>

\* entry of balanceClustersByWorkTimeWithGroups: the target is computed
WorkBalanceEnter ==
    /\ pc = "work_balance"
    /\ homeBase.defined
    /\ totalTime' = calculateTotalWorkTime(clusters, homeBase)
    /\ balanced' = FALSE
    /\ attempts' = 0
    /\ pc' = "work_while"
    /\ UNCHANGED <<variant, customers, numDays, homeBase, houseGroups,
                   centroids, clusters, iterations, idx, lastMove, visitMoved,
                   result, unvisited, optimized, current, threw>>

\* variant: imbalance > tolerance, not twice the tolerance
SignificantImbalanceOnce(imbalance) ==
    imbalance > (totalTime * 3) \div (Len(clusters) * 20)

\* imbalance > tolerance * 2, with tolerance = totalTime / clusters.length
\* * 0.15, i.e. imbalance * clusters.length * 10 > totalTime * 3
SignificantImbalance(imbalance) ==
    imbalance > (totalTime * 3) \div (Len(clusters) * 10)

\* the move, if any, that one pass of the while loop applies:
\* [found, kind, from, to, unit]
AttemptMove ==
    LET workTimes == [k \in DOMAIN clusters |->
                         calculateClusterWorkTime(clusters[k], homeBase)]
        maxWorkTime == MaxOf(Range(workTimes))
        minWorkTime == MinOf(Range(workTimes))
        imbalance == maxWorkTime - minWorkTime
        heaviestIndex == IndexOf(workTimes, maxWorkTime, 1)
        lightestIndex == IndexOf(workTimes, minWorkTime, 1)
        groupToMove == findBestHouseGroupToMoveByWorkTime(
                           clusters[heaviestIndex], clusters, houseGroups,
                           homeBase, "lighten")
        customerToMove == findBestCustomerToMoveByWorkTime(
                              clusters[heaviestIndex], clusters, homeBase,
                              "lighten")
    IN IF ~SignificantImbalance(imbalance) THEN NoMove
       ELSE IF groupToMove.found /\ groupToMove.targetCluster = lightestIndex
            THEN [found |-> TRUE, kind |-> "group", from |-> heaviestIndex,
                  to |-> lightestIndex, unit |-> groupToMove.unit]
            ELSE IF customerToMove.found
                    /\ customerToMove.targetCluster = lightestIndex
                 THEN [found |-> TRUE, kind |-> "customer",
                       from |-> heaviestIndex, to |-> lightestIndex,
                       unit |-> customerToMove.unit]
                 ELSE NoMove

\* one pass of while (!balanced && attempts < maxAttempts)
WorkAttempt ==
    /\ pc = "work_while"
    /\ ~balanced /\ attempts < maxAttempts
    /\ attempts' = attempts + 1
    /\ LET m == AttemptMove
       IN /\ lastMove' = m
          /\ balanced' = ~m.found
          /\ IF m.found
             THEN IF m.kind = "group"
                  THEN /\ clusters' = moveHouseGroupBetweenClusters(
                                          clusters, m.from, m.to, m.unit)
                       /\ UNCHANGED visitMoved
                  ELSE /\ clusters' = moveCustomerBetweenClusters(
                                          clusters, m.from, m.to, m.unit)
                       /\ visitMoved' = TRUE
             ELSE UNCHANGED <<clusters, visitMoved>>
    /\ UNCHANGED <<variant, customers, numDays, homeBase, houseGroups,
                   centroids, iterations, idx, totalTime, result, unvisited,
                   optimized, current, threw, pc>>

\* loop exit: balanceEmptyClusters(clusters); return clusters;
WorkRepairAndReturn ==
    /\ pc = "work_while"
    /\ ~(~balanced /\ attempts < maxAttempts)
    /\ clusters' = balanceEmptyClusters(clusters)
    /\ result' = clusters'
    /\ lastMove' = NoMove
    /\ pc' = "done"
    /\ UNCHANGED <<variant, customers, numDays, homeBase, houseGroups,
                   centroids, iterations, attempts, balanced, idx, totalTime,
                   visitMoved, unvisited, optimized, current, threw>>

NextWork ==
    \/ WorkEmpty
    \/ WorkDegenerate
    \/ WorkStart
    \/ WorkKMeansIteration
    \/ WorkBalanceNoHome
    \/ WorkBalanceEnter
    \/ WorkAttempt
    \/ WorkRepairAndReturn

SpecWork == InitWork /\ [][NextWork]_vars

----------------------------------------------------------------------------
(* calculateDistance under test: both orders of two coordinates, and a      *)
(* coordinate with itself                                                   *)

\* latitudes in 0.01 mile on both sides of the equator
DistLats == {-7, -2, -1, 0, 1, 2, 5, 100}

InitDistance ==
    /\ variant = "distance"
    /\ customers \in VisitLists(DistLats, 2)
    /\ pc = "distance_call"
    /\ homeBase = Undefined
    /\ numDays = 0
    /\ houseGroups = <<>>
    /\ centroids = <<>>
    /\ clusters = <<>>
    /\ iterations = 0
    /\ attempts = 0
    /\ balanced = FALSE
    /\ idx = 0
    /\ totalTime = 0
    /\ lastMove = NoMove
    /\ visitMoved = FALSE
    /\ result = <<>>
    /\ unvisited = NoArray
    /\ optimized = <<>>
    /\ current = Undefined
    /\ threw = FALSE

CalculateDistanceCall ==
    /\ pc = "distance_call"
    /\ LET a == customers[1]
           b == customers[2]
       IN result' = [ab |-> calculateDistance(a.lat, a.lng, b.lat, b.lng),
                     ba |-> calculateDistance(b.lat, b.lng, a.lat, a.lng),
                     aa |-> calculateDistance(a.lat, a.lng, a.lat, a.lng)]
    /\ pc' = "done"
    /\ UNCHANGED <<customers, homeBase, unvisited, optimized, current, threw>>
    /\ UNCHANGED planVars

NextDistance == CalculateDistanceCall

SpecDistance == InitDistance /\ [][NextDistance]_vars

----------------------------------------------------------------------------
(* Properties *)

RECURSIVE FlattenIds(_)
FlattenIds(cl) ==
    IF cl = <<>> THEN <<>>
    ELSE [i \in DOMAIN Head(cl).points |-> Head(cl).points[i].id]
         \o FlattenIds(Tail(cl))

\* number of places at which id occurs in the list ids
Occurrences(ids, id) == Cardinality({i \in DOMAIN ids : ids[i] = id})

\* every visit id of cs occurs exactly once in the buckets cl, and nothing else
IsPartition(cl, cs) ==
    /\ Len(FlattenIds(cl)) = Len(cs)
    /\ \A i \in DOMAIN cs : Occurrences(FlattenIds(cl), cs[i].id) = 1

\* C1: Partition completeness: for a non-empty list of visits with unique
\* ids and numDays >= 1, the buckets returned by clusterCustomers hold every
\* visit id exactly once (none missing, none twice).
C1_PartitionComplete ==
    (pc = "done" /\ Len(customers) >= 1 /\ numDays >= 1)
        => IsPartition(result, customers)

\* C2: No empty buckets when avoidable: whenever len(visits) >= numDays >= 1
\* every returned bucket holds at least one visit, with or without a home
\* base and for every choice of the initial centroids.
C2_NoEmptyBucket ==
    (pc = "done" /\ numDays >= 1 /\ Len(customers) >= numDays)
        => \A k \in DOMAIN result : Len(result[k].points) >= 1

\* C3: Degenerate pass-through: if 1 <= len(visits) <= numDays the result
\* has len(visits) buckets, bucket i holds only the i-th visit and has its
\* coordinate as centroid, and no grouping, k-means or balancing has run.
C3_DegeneratePassThrough ==
    (pc = "done" /\ 1 <= Len(customers) /\ Len(customers) <= numDays)
        => /\ Len(result) = Len(customers)
           /\ \A i \in DOMAIN customers :
                 /\ Len(result[i].points) = 1
                 /\ result[i].points[1].id = customers[i].id
                 /\ result[i].points[1].data = customers[i]
                 /\ result[i].centroid = [lat |-> customers[i].lat,
                                          lng |-> customers[i].lng]
           /\ houseGroups = <<>> /\ iterations = 0 /\ attempts = 0
           /\ clusters = <<>>

C3_Witness ==
    /\ pc = "done"
    /\ Len(customers) = 2 /\ numDays = 2
    /\ customers[1].lat # customers[2].lat
    /\ Len(result) = 2

\* C4: Invalid or empty arguments: when visits is empty or numDays <= 0 the
\* result is the empty list, nothing is thrown, and grouping, k-means and
\* balancing have not run.
C4_EmptyResult ==
    (pc = "done" /\ (Len(customers) = 0 \/ numDays <= 0))
        => /\ result = <<>>
           /\ ~threw
           /\ houseGroups = <<>> /\ iterations = 0 /\ attempts = 0
           /\ clusters = <<>>

C4_Witness ==
    /\ pc = "done"
    /\ numDays = 0
    /\ Len(customers) >= 2
    /\ result = <<>>

\* C5: Bucket count: whenever len(visits) >= numDays >= 1 the result has
\* exactly numDays buckets, with ids 0..numDays-1 in index order.
C5_BucketCount ==
    (pc = "done" /\ numDays >= 1 /\ Len(customers) >= numDays)
        => /\ Len(result) = numDays
           /\ \A k \in DOMAIN result : result[k].id = k - 1

C5_Witness ==
    /\ pc = "done"
    /\ numDays = 2
    /\ Len(customers) > numDays
    /\ iterations >= 2
    /\ homeBase.defined
    /\ Len(result) = 2

\* C6: Sequencer is a permutation and does not mutate its input: with a
\* home base and a non-empty list, the returned list has each element of
\* the input exactly once, and no step of the call changes the caller's list.
C6_PermutationNoMutation ==
    /\ [](  (pc = "done" /\ homeBase.defined /\ Len(customers) >= 1)
            => /\ Len(result) = Len(customers)
               /\ \A i \in DOMAIN customers :
                     Cardinality({j \in DOMAIN result :
                                     result[j] = customers[i]}) = 1)
    /\ [][customers' = customers]_vars

C6_Witness ==
    /\ pc = "done"
    /\ homeBase.defined
    /\ Len(customers) = 3
    /\ result # customers
    /\ iterations = 3

\* C7: Sequencer no-op without home base: without a home base the list is
\* returned in unchanged order, and an empty list is returned unchanged with
\* or without a home base; the loop does not run.
C7_IdentityWithoutHome ==
    (pc = "done" /\ (~homeBase.defined \/ Len(customers) = 0))
        => /\ result = customers
           /\ iterations = 0

C7_Witness ==
    /\ pc = "done"
    /\ ~homeBase.defined
    /\ Len(customers) = 3
    /\ customers[1].lat > customers[2].lat
    /\ result = customers

\* the buckets at the current point of the run
CurrentBuckets == IF pc = "done" THEN result ELSE clusters

InBucket(bucket, id) == \E j \in DOMAIN bucket.points : bucket.points[j].id = id

\* all members of every group are in the same buckets
GroupsTogether(groups, cl) ==
    \A g \in DOMAIN groups :
        \A i, j \in DOMAIN groups[g].customers :
            \A k \in DOMAIN cl :
                InBucket(cl[k], groups[g].customers[i].id)
                    <=> InBucket(cl[k], groups[g].customers[j].id)

\* C8: Group atomicity: in a run without single-visit moves every group's
\* members are all in the same bucket at every point after partitioning,
\* including the returned result after the final empty-bucket repair.
C8_GroupAtomicity ==
    (variant = "house" /\ pc \in {"balance", "while", "for", "done"}
        /\ ~visitMoved)
        => GroupsTogether(houseGroups, CurrentBuckets)

RECURSIVE FlattenMembers(_)
FlattenMembers(groups) ==
    IF groups = <<>> THEN <<>>
    ELSE [i \in DOMAIN Head(groups).customers |->
             Head(groups).customers[i].id]
         \o FlattenMembers(Tail(groups))

\* every visit of cs is a member of exactly one group, no group is empty
GroupsCover(groups, cs) ==
    /\ Len(FlattenMembers(groups)) = Len(cs)
    /\ \A i \in DOMAIN cs : Occurrences(FlattenMembers(groups), cs[i].id) = 1
    /\ \A g \in DOMAIN groups : Len(groups[g].customers) >= 1

\* C9: Grouping coverage under the radius policy: the groups returned by
\* identifyHouseGroups partition the input, none is empty, and every member
\* is within 0.1 mile of the first member of its group.
C9_RadiusCoverage ==
    (pc = "done" /\ variant = "radius")
        => /\ GroupsCover(result, customers)
           /\ \A g \in DOMAIN result :
                 \A i \in DOMAIN result[g].customers :
                     Abs(result[g].customers[i].lat
                           - result[g].customers[1].lat) <= 10 * Scale

C9_Witness ==
    /\ pc = "done" /\ variant = "radius"
    /\ Len(customers) = 3
    /\ Len(result) = 2
    /\ Len(result[1].customers) = 2
    /\ result[1].customers[2].id = 3

Unparseable(c) == ~c.address.defined \/ ~parseAddress(c.address).ok

\* C10: Street policy and unparseable addresses: nothing is thrown, the
\* street groups cover every visit exactly once, and every visit whose
\* address does not parse is alone in a group of its own.
C10_UnparseableSingleton ==
    (pc = "done" /\ variant = "street")
        => /\ ~threw
           /\ GroupsCover(result, customers)
           /\ \A i \in DOMAIN customers :
                 Unparseable(customers[i])
                    => \E g \in DOMAIN result :
                          /\ Len(result[g].customers) = 1
                          /\ result[g].customers[1].id = customers[i].id

\* C11: Load balancer is a no-op without a home base: the step that enters
\* the balancer without a home base returns the partitioner's buckets as they
\* are (visit lists, order and centroids), and makes no attempt, no move and
\* no repair.
C11_NoOpWithoutHome ==
    [][(pc = "balance" /\ ~homeBase.defined)
          => /\ result' = clusters
             /\ clusters' = clusters
             /\ pc' = "done"
             /\ attempts' = 0 /\ lastMove' = NoMove /\ ~visitMoved']_vars

C11_Witness ==
    /\ pc = "done"
    /\ ~homeBase.defined
    /\ iterations >= 1
    /\ \E k \in DOMAIN result : Len(result[k].points) = 0
    /\ \E k \in DOMAIN result : Len(result[k].points) >= 2
    /\ result = clusters

UnitIds(m) ==
    IF variant = "plain" THEN {m.unit.id}
    ELSE {m.unit.customers[i].id : i \in DOMAIN m.unit.customers}

BucketIds(bucket) == [j \in DOMAIN bucket.points |-> bucket.points[j].id]

\* C14: In the drive-time balancer, a move made for a bucket below target
\* minus tolerance takes the unit out of a heavier bucket and adds it to the
\* light bucket: afterwards the unit is not in the heavier bucket, it is in
\* the light bucket exactly once, and it was not in the light bucket before.
C14_HeavierMoveTakesFromHeavier ==
    [][(/\ pc = "for" /\ idx <= Len(clusters)
        /\ ~TooHeavy(calculateClusterDriveTime(clusters[idx], homeBase))
        /\ TooLight(calculateClusterDriveTime(clusters[idx], homeBase))
        /\ StepMove(idx).found)
          => LET m == StepMove(idx)
             IN \A id \in UnitIds(m) :
                   /\ ~InBucket(clusters'[m.from], id)
                   /\ Occurrences(BucketIds(clusters'[idx]), id) = 1
                   /\ ~InBucket(clusters[idx], id)]_vars

\* C16: Nearest-neighbour order: every visit optimizeDayRoute outputs is at
\* minimum distance from the current position (the home base first, then the
\* visit output before) among the visits not yet output, and among several
\* at that minimum the earliest in the input order is taken.
C16_NearestNeighbourOrder ==
    [][(pc = "route_loop" /\ Len(unvisited.items) > 0)
          => LET chosen == optimized'[Len(optimized')]
                 from == IF optimized = <<>> THEN homeBase
                         ELSE optimized[Len(optimized)]
                 Dist(p) == calculateDistance(from.lat, from.lng, p.lat, p.lng)
             IN /\ current.lat = from.lat /\ current.lng = from.lng
                /\ \E i \in DOMAIN unvisited.items :
                      unvisited.items[i] = chosen
                /\ \A i \in DOMAIN unvisited.items :
                      LET u == unvisited.items[i]
                      IN /\ Dist(chosen) <= Dist(u)
                         /\ Dist(u) = Dist(chosen) => chosen.id <= u.id]_vars

C16_Witness ==
    /\ pc = "done" /\ variant = "route"
    /\ homeBase.defined
    /\ Len(customers) = 3
    /\ customers[1].lat # customers[2].lat
    /\ Abs(customers[1].lat - customers[3].lat)
          = Abs(customers[2].lat - customers[3].lat)
    /\ result[1].id = 3 /\ result[2].id = 1 /\ result[3].id = 2

\* C17: Partitioner degenerate case on groups: when proximity grouping yields
\* at most numDays groups for more than numDays visits, the result is one
\* bucket per group holding exactly that group's members, and no k-means
\* iteration has run.
C17_DegenerateOnGroups ==
    (variant = "house" /\ pc = "done" /\ numDays >= 1
        /\ Len(customers) > numDays
        /\ Len(identifyHouseGroups(Points(customers))) <= numDays)
        => LET groups == identifyHouseGroups(Points(customers))
           IN /\ Len(result) = Len(groups)
              /\ \A g \in DOMAIN groups :
                    result[g].points = groups[g].customers
              /\ iterations = 0

\* the groups that have their first member in the bucket, in group order
GroupsOfBucket(groups, bucket) ==
    LET Here(group) == InBucket(bucket, group.customers[1].id)
    IN SelectSeq(groups, Here)

\* C18: The partitioner never splits a group: on return from
\* performKMeansClusteringWithGroups every group is in exactly one bucket
\* with all its members, and every bucket's visit list is the concatenation
\* of the member lists of its groups.
C18_PartitionerKeepsGroups ==
    (variant = "house" /\ pc = "balance")
        => /\ \A g \in DOMAIN houseGroups :
                 Cardinality({k \in DOMAIN clusters :
                     InBucket(clusters[k],
                              houseGroups[g].customers[1].id)}) = 1
           /\ GroupsTogether(houseGroups, clusters)
           /\ \A k \in DOMAIN clusters :
                 clusters[k].points
                    = FlatMapCustomers(GroupsOfBucket(houseGroups,
                                                      clusters[k]))

C18_Witness ==
    /\ variant = "house" /\ pc = "balance"
    /\ Len(houseGroups) = 2
    /\ Len(houseGroups[1].customers) = 2
    /\ houseGroups[1].customers[2].id = 3
    /\ \A k \in DOMAIN clusters : Len(clusters[k].points) >= 1

\* C15: A group move preserves the partition: whenever the work-time
\* balancer applies moveHouseGroupBetweenClusters to buckets that hold every
\* visit id exactly once, they hold every visit id exactly once afterwards,
\* also when an earlier single-visit move has split the group.
C15_GroupMovePreservesPartition ==
    [][(/\ pc = "work_while" /\ ~balanced /\ attempts < maxAttempts
        /\ AttemptMove.found /\ AttemptMove.kind = "group"
        /\ IsPartition(clusters, customers))
          => IsPartition(clusters', customers)]_vars

----------------------------------------------------------------------------
(* The three looping functions side by side: the planner in its drive-time *)
(* and work-time revisions, and the sequencer.                             *)

InitLoops == InitPlan \/ InitWork \/ InitRoute

NextLoops ==
    \/ NextPlan
    \/ NextWork
    \/ NextRoute

SpecLoops == InitLoops /\ [][NextLoops]_vars

\* the counters of the loops never pass their caps, and the sequencer's
\* loop has run once per visit when it returns
LoopCaps ==
    /\ variant \in Variants => iterations <= maxIterations
    /\ variant = "work" => iterations <= maxIterationsWork
    /\ attempts <= maxAttempts
    /\ idx <= Len(clusters) + 1
    /\ (variant = "route" /\ pc = "route_loop") =>
           /\ iterations = Len(optimized)
           /\ iterations + Len(unvisited.items) = Len(customers)
    /\ (variant = "route" /\ pc = "done"
          /\ ~NothingToOptimize(customers, homeBase)) =>
           iterations = Len(customers)

\* how far a call has come: entry, k-means loop, entry of the balancer,
\* balancing loop (sequencer: its loop), return
Stage ==
    CASE pc \in {"call", "work_call", "route_call"} -> 0
      [] pc \in {"kmeans", "work_kmeans", "route_loop"} -> 1
      [] pc \in {"balance", "work_balance"} -> 2
      [] pc \in {"while", "for", "work_while"} -> 3
      [] OTHER -> 4

\* a step moves on to a later stage or, staying in its loop, raises the
\* loop's counter: (Stage, iterations, attempts, idx) grows in the
\* lexicographic order, in which LoopCaps bounds every component
Progress ==
    \/ Stage' > Stage
    \/ Stage' = Stage /\ iterations' > iterations
    \/ Stage' = Stage /\ iterations' = iterations /\ attempts' > attempts
    \/ /\ Stage' = Stage /\ iterations' = iterations /\ attempts' = attempts
       /\ idx' > idx

\* a call that has not returned can take its next step: the enabling
\* condition of NextLoops, position by position
NotStuck ==
    \/ pc = "done"
    \/ /\ pc = "call"
       /\ \/ InvalidArguments(customers, numDays)
          \/ FewerCustomersThanDays(Points(customers), numDays)
          \/ InitialCentroids(
                 KPoints(variant, customers,
                         IF variant = "house"
                         THEN identifyHouseGroups(Points(customers))
                         ELSE <<>>),
                 numDays, homeBase) # {}
    \/ /\ pc = "work_call"
       /\ \/ InvalidArguments(customers, numDays)
          \/ FewerCustomersThanDays(WorkPoints(customers), numDays)
          \/ InitialCentroids(
                 StreetGroupPoints(
                     identifyStreetGroups(WorkPoints(customers))),
                 numDays, homeBase) # {}
    \/ pc \in {"kmeans", "work_kmeans", "balance", "work_balance", "while",
               "work_while", "route_call", "route_loop"}
    \/ pc = "for" /\ idx <= Len(clusters)

----------------------------------------------------------------------------
(* The assignment step of performKMeansClustering under test, in the       *)
(* drive-time revision (points are visits) and in the work-time revision   *)
(* (points are groups), on lists long enough for the work-time penalty     *)

\* 0 and 0.4 mile north of the origin
AssignLats == {0, 40}

\* one group per point, as grouping leaves visits that are far apart
SingletonGroups(points) ==
    [i \in DOMAIN points |->
        [id |-> i - 1,
         customers |-> <<points[i]>>,
         centroid |-> [lat |-> points[i].lat, lng |-> points[i].lng]]]

InitAssign ==
    /\ variant \in {"plain", "work"}
    /\ customers \in VisitListsUpTo(AssignLats, MaxGroups)
    /\ centroids \in {<<[lat |-> a * Scale, lng |-> 0],
                        [lat |-> b * Scale, lng |-> 0]>> :
                          a, b \in AssignLats}
    /\ numDays = 2
    /\ homeBase = Undefined
    /\ pc = "assign_call"
    /\ houseGroups = <<>>
    /\ clusters = <<>>
    /\ iterations = 0
    /\ attempts = 0
    /\ balanced = FALSE
    /\ idx = 0
    /\ totalTime = 0
    /\ lastMove = NoMove
    /\ visitMoved = FALSE
    /\ result = <<>>
    /\ unvisited = NoArray
    /\ optimized = <<>>
    /\ current = Undefined
    /\ threw = FALSE

\* the assignment of clustering.ts: points.forEach, nearest centroid
AssignNearestCall ==
    /\ pc = "assign_call"
    /\ variant = "plain"
    /\ clusters' = AssignPoints(Points(customers), centroids)
    /\ pc' = "done"
    /\ UNCHANGED <<variant, customers, numDays, homeBase, houseGroups,
                   centroids, iterations, attempts, balanced, idx, totalTime,
                   lastMove, visitMoved, result, unvisited, optimized,
                   current, threw>>

\* the assignment of the work-time revision: points.forEach, lowest score
AssignByScoreCall ==
    /\ pc = "assign_call"
    /\ variant = "work"
    /\ houseGroups' = SingletonGroups(Points(customers))
    /\ clusters' = AssignByScore(StreetGroupPoints(houseGroups'), centroids)
    /\ pc' = "done"
    /\ UNCHANGED <<variant, customers, numDays, homeBase, centroids,
                   iterations, attempts, balanced, idx, totalTime, lastMove,
                   visitMoved, result, unvisited, optimized, current, threw>>

NextAssign ==
    \/ AssignNearestCall
    \/ AssignByScoreCall

SpecAssign == InitAssign /\ [][NextAssign]_vars

\* C19: after the assignment step every point (group) lies in the bucket of
\* a centroid at minimum distance from it, the lowest such bucket index on
\* ties, whatever was assigned to the buckets before it.
C19_NearestCentroidAssignment ==
    pc = "done" =>
        \A k \in DOMAIN clusters :
            \A n \in DOMAIN clusters[k].points :
                LET p == clusters[k].points[n]
                    Dist(j) == calculateDistance(p.lat, p.lng,
                                                 centroids[j].lat,
                                                 centroids[j].lng)
                IN \A j \in DOMAIN centroids :
                       /\ Dist(k) <= Dist(j)
                       /\ Dist(k) = Dist(j) => k <= j

----------------------------------------------------------------------------
(* The empty-bucket repair under test: balanceEmptyClusters on buckets of  *)
(* visits, and the redistribution inside the k-means loop of the work-time *)
(* revision on buckets of groups.  clusters is the array as passed, result *)
(* the same array after the call.                                          *)

\* n visits with ids 1..n, visit i lying i * 0.01 mile north
UnitList(n) == [i \in 1..n |-> [id |-> i, lat |-> i * Scale, lng |-> 0]]

\* the points the buckets hold: visits, or one group point per visit
RepairPoints(v, cs) ==
    IF v = "plain" THEN Points(cs)
    ELSE StreetGroupPoints(SingletonGroups(Points(cs)))

\* the points that f sends to bucket b, in their order
RECURSIVE PointsOf(_, _, _, _)
PointsOf(points, f, b, i) ==
    IF i > Len(points) THEN <<>>
    ELSE (IF f[i] = b THEN <<points[i]>> ELSE <<>>)
             \o PointsOf(points, f, b, i + 1)

\* every way of spreading the points over k buckets, order kept
BucketArrays(points, k) ==
    {[b \in 1..k |->
         [id |-> b - 1,
          centroid |-> [lat |-> 0, lng |-> 0],
          points |-> PointsOf(points, f, b, 1)]] :
       f \in [1..Len(points) -> 1..k]}

InitRepair ==
    /\ variant \in {"plain", "work"}
    /\ customers \in {UnitList(n) : n \in 0..MaxUnits}
    /\ numDays \in 1..MaxDays
    /\ clusters \in BucketArrays(RepairPoints(variant, customers), numDays)
    /\ homeBase = Undefined
    /\ pc = "repair_call"
    /\ houseGroups = <<>>
    /\ centroids = <<>>
    /\ iterations = 0
    /\ attempts = 0
    /\ balanced = FALSE
    /\ idx = 0
    /\ totalTime = 0
    /\ lastMove = NoMove
    /\ visitMoved = FALSE
    /\ result = <<>>
    /\ unvisited = NoArray
    /\ optimized = <<>>
    /\ current = Undefined
    /\ threw = FALSE

\* balanceEmptyClusters(clusters)
BalanceEmptyClustersCall ==
    /\ pc = "repair_call"
    /\ variant = "plain"
    /\ result' = balanceEmptyClusters(clusters)
    /\ pc' = "done"
    /\ UNCHANGED <<variant, customers, numDays, homeBase, houseGroups,
                   centroids, clusters, iterations, attempts, balanced, idx,
                   totalTime, lastMove, visitMoved, unvisited, optimized,
                   current, threw>>

\* "Ensure no empty clusters by redistributing", inside the k-means loop
RedistributeCall ==
    /\ pc = "repair_call"
    /\ variant = "work"
    /\ result' = Redistribute(clusters)
    /\ pc' = "done"
    /\ UNCHANGED <<variant, customers, numDays, homeBase, houseGroups,
                   centroids, clusters, iterations, attempts, balanced, idx,
                   totalTime, lastMove, visitMoved, unvisited, optimized,
                   current, threw>>

NextRepair ==
    \/ BalanceEmptyClustersCall
    \/ RedistributeCall

SpecRepair == InitRepair /\ [][NextRepair]_vars

\* number of units in bucket k of an array of buckets
Size(cl, k) == Len(cl[k].points)

\* C20: the repair fills an empty bucket with one unit popped from the end
\* of a most-populated bucket; no bucket that held a unit is emptied, only
\* buckets that held more than one unit give, the units are the same
\* before and after, and with at least as many units as buckets no bucket
\* is left empty, however many were empty.
C20_EmptyBucketRepair ==
    pc = "done" =>
        /\ Len(result) = Len(clusters)
        /\ \A id \in Range(FlattenIds(clusters))
                        \cup Range(FlattenIds(result)) :
               Occurrences(FlattenIds(result), id)
                   = Occurrences(FlattenIds(clusters), id)
        /\ \A k \in DOMAIN clusters :
               /\ Size(clusters, k) >= 1 => Size(result, k) >= 1
               /\ Size(result, k) < Size(clusters, k) =>
                      /\ Size(clusters, k) > 1
                      /\ result[k].points
                             = SubSeq(clusters[k].points, 1, Size(result, k))
                      \* taken from the fullest: no other bucket is left
                      \* more than one unit fuller than a donor
                      /\ \A j \in DOMAIN clusters :
                             Size(result, k) >= Size(result, j) - 1
               /\ Size(clusters, k) = 0 => Size(result, k) <= 1
               /\ Size(result, k) > Size(clusters, k) =>
                      /\ Size(clusters, k) = 0
                      /\ \E d \in DOMAIN clusters :
                             /\ Size(result, d) < Size(clusters, d)
                             /\ \E n \in (Size(result, d) + 1)
                                            ..Size(clusters, d) :
                                    result[k].points
                                        = <<clusters[d].points[n]>>
        /\ Len(customers) >= Len(clusters) =>
               \A k \in DOMAIN result : Size(result, k) >= 1

\* two buckets were empty at once and both have been filled
C20_Witness ==
    /\ pc = "done"
    /\ Len(clusters) = 3
    /\ Len(customers) >= 4
    /\ Cardinality({k \in DOMAIN clusters : Size(clusters, k) = 0}) = 2
    /\ \A k \in DOMAIN result : Size(result, k) >= 1

----------------------------------------------------------------------------
(* The attempts of the work-time load balancer *)

\* cost of every bucket at the start of an attempt
WorkTimes ==
    [k \in DOMAIN clusters |-> calculateClusterWorkTime(clusters[k], homeBase)]

Imbalance == MaxOf(Range(WorkTimes)) - MinOf(Range(WorkTimes))

\* a pass of the while loop of the work-time balancer is taking place
InAttempt == pc = "work_while" /\ pc' = "work_while"

\* C21: an attempt of the work-time balancer changes the buckets only if
\* max cost - min cost at its start exceeds twice the tolerance, the
\* tolerance being 15% of the mean cost per bucket (total cost at entry /
\* number of buckets); an attempt applies at most one move, so at most two
\* buckets change.
C21_BalancingThreshold ==
    [][(InAttempt /\ (lastMove'.found \/ clusters' # clusters)) =>
          /\ Imbalance > (totalTime * 3) \div (Len(clusters) * 10)
          /\ lastMove'.found
          /\ Len(clusters') = Len(clusters)
          /\ \A k \in DOMAIN clusters :
                 k \notin {lastMove'.from, lastMove'.to}
                     => clusters'[k] = clusters[k]]_vars

\* an attempt has applied a move and a later one found the buckets level
C21_Witness ==
    /\ pc = "work_while"
    /\ visitMoved
    /\ attempts >= 2
    /\ balanced
    /\ ~lastMove.found

\* index of the first bucket with the greatest cost, and with the least
HeaviestIndex == IndexOf(WorkTimes, MaxOf(Range(WorkTimes)), 1)
LightestIndex == IndexOf(WorkTimes, MinOf(Range(WorkTimes)), 1)

\* some member of the group is in the bucket
ResidesIn(group, bucket) ==
    \E i \in DOMAIN group.customers : InBucket(bucket, group.customers[i].id)

\* moving a group out of bucket h qualifies towards bucket k: k costs less
GroupMoveQualifies(h, k) == k # h /\ WorkTimes[k] < WorkTimes[h]

\* moving the visit out of bucket h qualifies towards bucket k: k with the
\* visit costs less than h without it
VisitMoveQualifies(visit, h, k) ==
    /\ k # h
    /\ WorkTimes[k] + WorkTimeOrDefault(visit.data) * 100 * Scale
           < WorkTimes[h] - WorkTimeOrDefault(visit.data) * 100 * Scale

\* the max bucket holds a unit whose move to some other bucket qualifies
QualifyingMoveExists ==
    \/ \E g \in DOMAIN houseGroups, k \in DOMAIN clusters :
           /\ ResidesIn(houseGroups[g], clusters[HeaviestIndex])
           /\ GroupMoveQualifies(HeaviestIndex, k)
    \/ \E n \in DOMAIN clusters[HeaviestIndex].points, k \in DOMAIN clusters :
           VisitMoveQualifies(clusters[HeaviestIndex].points[n],
                              HeaviestIndex, k)

\* C22: the loop of the work-time balancer goes on exactly while the last
\* attempt applied a move and fewer than 20 attempts were made; an attempt
\* whose imbalance exceeds twice the tolerance and whose max bucket holds a
\* unit with a qualifying move applies a move; when the loop ends the
\* empty-bucket repair runs once and the function returns.
C22_StopAndFinalRepair ==
    [][pc = "work_while" =>
          /\ (attempts >= 1 /\ ~lastMove.found) => pc' = "done"
          /\ attempts >= maxAttempts => pc' = "done"
          /\ (attempts < maxAttempts /\ (attempts = 0 \/ lastMove.found))
                 => (pc' = "work_while" /\ attempts' = attempts + 1)
          /\ pc' = "done" => result' = balanceEmptyClusters(clusters)
          /\ (/\ InAttempt
              /\ Imbalance > (totalTime * 3) \div (Len(clusters) * 10)
              /\ QualifyingMoveExists) => lastMove'.found]_vars

\* ids of the visits a move carries: the group's members, or the visit
MovedIds(m) ==
    IF m.kind = "group"
    THEN {m.unit.customers[i].id : i \in DOMAIN m.unit.customers}
    ELSE {m.unit.id}

\* C23: every move of the work-time balancer goes from the bucket that had
\* the greatest cost at the start of the attempt to the bucket that had the
\* least (first index on equal costs): the moved visits were in the former,
\* are no longer there and are in the latter, and no other bucket changes.
C23_MoveDirection ==
    [][(InAttempt /\ lastMove'.found) =>
          /\ lastMove'.from = HeaviestIndex
          /\ lastMove'.to = LightestIndex
          /\ \A id \in MovedIds(lastMove') :
                 /\ InBucket(clusters[HeaviestIndex], id)
                 /\ ~InBucket(clusters'[HeaviestIndex], id)
                 /\ InBucket(clusters'[LightestIndex], id)
          /\ \A k \in DOMAIN clusters :
                 k \notin {HeaviestIndex, LightestIndex}
                     => clusters'[k] = clusters[k]]_vars

\* group g resides in the max bucket and its move qualifies
GroupCandidate(g) ==
    /\ ResidesIn(houseGroups[g], clusters[HeaviestIndex])
    /\ \E k \in DOMAIN clusters : GroupMoveQualifies(HeaviestIndex, k)

\* the n-th visit of the max bucket has a qualifying move
VisitCandidate(n) ==
    \E k \in DOMAIN clusters :
        VisitMoveQualifies(clusters[HeaviestIndex].points[n],
                           HeaviestIndex, k)

\* C24: a move applied by an attempt of the work-time balancer is a group
\* move of the first group, in the order of the group list, that resides
\* in the max bucket and has a qualifying move; it is a single-visit move
\* only if no group has one, and then of the first visit of the max bucket
\* that has a qualifying move.
C24_MoveSelectionOrder ==
    [][(InAttempt /\ lastMove'.found) =>
          /\ lastMove'.kind = "group" =>
                 \E g \in DOMAIN houseGroups :
                     /\ lastMove'.unit = houseGroups[g]
                     /\ GroupCandidate(g)
                     /\ \A f \in 1..(g - 1) : ~GroupCandidate(f)
          /\ lastMove'.kind = "customer" =>
                 /\ \A g \in DOMAIN houseGroups : ~GroupCandidate(g)
                 /\ \E n \in DOMAIN clusters[HeaviestIndex].points :
                        /\ lastMove'.unit = clusters[HeaviestIndex].points[n]
                        /\ VisitCandidate(n)
                        /\ \A f \in 1..(n - 1) : ~VisitCandidate(f)]_vars

\* the visits a move carries, in order
MovedVisits(m) == IF m.kind = "group" THEN m.unit.customers ELSE <<m.unit>>

\* the centroid bucket k must have after a move that left it the points
\* of after[k]: their mean, or the previous centroid if there are none
CentroidAfterMove(before, after, k) ==
    IF Len(after[k].points) = 0 THEN before[k].centroid
    ELSE [lat |-> MeanLat(after[k].points), lng |-> MeanLng(after[k].points)]

\* C25: a move of the work-time balancer removes the unit's visits from the
\* source bucket (the others keep their order), appends them to the end of
\* the target bucket, sets the centroid of both to the mean coordinate of
\* their members (an emptied bucket keeps its centroid) and leaves every
\* other bucket as it was.
C25_MoveEffect ==
    [][(InAttempt /\ lastMove'.found) =>
          LET m == lastMove'
              Stays(p) == p.id \notin MovedIds(m)
          IN /\ Len(clusters') = Len(clusters)
             /\ clusters'[m.from].points
                    = SelectSeq(clusters[m.from].points, Stays)
             /\ clusters'[m.to].points
                    = clusters[m.to].points \o MovedVisits(m)
             /\ \A k \in {m.from, m.to} :
                    /\ clusters'[k].centroid
                           = CentroidAfterMove(clusters, clusters', k)
                    /\ clusters'[k].id = clusters[k].id
             /\ \A k \in DOMAIN clusters :
                    k \notin {m.from, m.to} => clusters'[k] = clusters[k]]_vars

\* a group of two visits has just been moved into a bucket that held a visit
C25_Witness ==
    /\ pc = "work_while"
    /\ lastMove.found
    /\ lastMove.kind = "group"
    /\ Len(lastMove.unit.customers) = 2
    /\ Len(clusters[lastMove.to].points) >= 3
    /\ clusters[lastMove.to].centroid.lat
           # clusters[lastMove.to].points[1].lat

----------------------------------------------------------------------------
(* Bucket cost *)

\* length of the closed tour home base -> stops in order -> home base
TourLength(stops, hb) ==
    LET n == Len(stops)
        At(i) == IF i = 0 \/ i = n + 1 THEN hb ELSE stops[i]
    IN SumSeq([i \in 1..(n + 1) |->
                  calculateDistance(At(i - 1).lat, At(i - 1).lng,
                                    At(i).lat, At(i).lng)])

\* service minutes of one visit: its estimate, 60 without one
ServiceOf(point) ==
    IF "estimatedWorkTime" \in DOMAIN point.data
    THEN point.data.estimatedWorkTime
    ELSE 60

\* cost of a bucket in 0.01/Scale minute: 2 minutes per mile of the tour
\* in the sequencer's order plus the service minutes; 0 for an empty bucket
BucketCost(bucket, hb) ==
    IF bucket.points = <<>> THEN 0
    ELSE 2 * TourLength(optimizeDayRoute(
                            [i \in DOMAIN bucket.points |->
                                bucket.points[i].data], hb), hb)
         + 100 * Scale
             * SumSeq([i \in DOMAIN bucket.points |->
                          ServiceOf(bucket.points[i])])

\* C26: the cost the work-time balancer computes for a bucket is 0 for an
\* empty bucket and otherwise 2 minutes per mile of the closed tour home
\* base -> visits in the sequencer's order -> home base, plus the service
\* minutes of its visits (60 for a visit without estimate); the total at
\* entry of the balancer is the sum of these costs.
C26_BucketCost ==
    pc = "work_while" =>
        /\ \A k \in DOMAIN clusters :
               WorkTimes[k] = BucketCost(clusters[k], homeBase)
        /\ attempts = 0 =>
               totalTime = SumSeq([k \in DOMAIN clusters |->
                                      BucketCost(clusters[k], homeBase)])

\* at entry of the balancer: a bucket of two visits on either side of the
\* home base, one of them a large property
C26_Witness ==
    /\ pc = "work_while"
    /\ attempts = 0
    /\ \E k \in DOMAIN clusters :
           /\ Len(clusters[k].points) = 2
           /\ clusters[k].points[1].lat < homeBase.lat
           /\ clusters[k].points[2].lat > homeBase.lat
           /\ ServiceOf(clusters[k].points[2]) > 60
           /\ WorkTimes[k] > 0
    /\ totalTime > 0

----------------------------------------------------------------------------
(* Street-policy grouping *)

\* the parse of the address of visit i of the caller's list
ParsedVisit(i) == parseAddress(customers[i].address)

\* visits i and j are members of one group of the result
SameGroup(i, j) ==
    \E g \in DOMAIN result :
        /\ \E m \in DOMAIN result[g].customers :
               result[g].customers[m].id = customers[i].id
        /\ \E m \in DOMAIN result[g].customers :
               result[g].customers[m].id = customers[j].id

SameStreet(i, j) == ParsedVisit(i).streetName = ParsedVisit(j).streetName

\* i and j follow each other in the ascending order of house numbers of
\* their street: no visit of the street has a number strictly in between
ConsecutiveOnStreet(i, j) ==
    /\ i # j
    /\ SameStreet(i, j)
    /\ ParsedVisit(i).houseNumber <= ParsedVisit(j).houseNumber
    /\ ~\E k \in DOMAIN customers :
           /\ ParsedVisit(k).ok
           /\ SameStreet(i, k)
           /\ ParsedVisit(i).houseNumber < ParsedVisit(k).houseNumber
           /\ ParsedVisit(k).houseNumber < ParsedVisit(j).houseNumber

----------------------------------------------------------------------------
(* Radius-policy grouping *)

\* position in the caller's list of the visit with this id
PositionOf(id) == CHOOSE i \in DOMAIN customers : customers[i].id = id

\* positions of the members of group g of the result, in member order
MemberPositions(g) ==
    [m \in DOMAIN result[g].customers |->
        PositionOf(result[g].customers[m].id)]

\* positions of the visits in the groups before group g
UsedBefore(g) == UNION {Range(MemberPositions(f)) : f \in 1..(g - 1)}

\* visit i lies within the radius of visit s
WithinRadius(s, i) ==
    calculateDistance(customers[s].lat, customers[s].lng,
                      customers[i].lat, customers[i].lng)
        <= HOUSE_GROUP_DISTANCE * Scale

\* C28: in the result of identifyHouseGroups the seed (first member) of
\* each group is the earliest visit of the input not in an earlier group,
\* so groups come in the order of their seeds; the group holds exactly the
\* visits not in an earlier group that lie within the radius of the seed,
\* the seed first and the others in input order; a visit within the radius
\* of two seeds is in the group of the earlier one.  The result is thereby
\* determined by the input list and its order.
C28_RadiusFirstUnusedFirst ==
    (pc = "done" /\ variant = "radius") =>
        /\ \A g \in DOMAIN result :
               LET pos == MemberPositions(g)
                   seed == pos[1]
                   free == DOMAIN customers \ UsedBefore(g)
               IN /\ seed \in free
                  /\ \A i \in free : seed <= i
                  /\ Range(pos) = {i \in free : WithinRadius(seed, i)}
                  /\ \A m, n \in DOMAIN pos : m < n => pos[m] < pos[n]
                  /\ result[g].customers
                         = [m \in DOMAIN pos |-> Points(customers)[pos[m]]]
        /\ UsedBefore(Len(result) + 1) = DOMAIN customers
        /\ \A g, h \in DOMAIN result, i \in DOMAIN customers :
               (/\ g < h
                /\ WithinRadius(MemberPositions(g)[1], i)
                /\ WithinRadius(MemberPositions(h)[1], i))
                   => i \notin Range(MemberPositions(h))

\* the third visit lies within the radius of the first and of the second,
\* which are seeds of two groups; it is in the first group
C28_Witness ==
    /\ pc = "done" /\ variant = "radius"
    /\ Len(customers) = 3
    /\ ~WithinRadius(1, 2)
    /\ WithinRadius(1, 3) /\ WithinRadius(2, 3)
    /\ Len(result) = 2
    /\ Len(result[1].customers) = 2
    /\ result[1].customers[2].id = customers[3].id

----------------------------------------------------------------------------
(* Centroids of the returned buckets *)

\* C29: when the work-time revision of clusterCustomers returns, the
\* centroid of every bucket that holds a visit is the arithmetic mean of
\* the coordinates of the bucket's visits.
C29_CentroidConsistency ==
    (pc = "done" /\ variant = "work") =>
        \A k \in DOMAIN result :
            Len(result[k].points) > 0 =>
                /\ result[k].centroid.lat * Len(result[k].points)
                       = SumSeq([i \in DOMAIN result[k].points |->
                                    result[k].points[i].lat])
                /\ result[k].centroid.lng * Len(result[k].points)
                       = SumSeq([i \in DOMAIN result[k].points |->
                                    result[k].points[i].lng])

----------------------------------------------------------------------------
(* The sequencer applied to its own output *)

\* C30: sequencing the list the sequencer returned, with the same home
\* base, returns that list in the same order, also when several visits are
\* at the same distance from the current position.
C30_SequencerIdempotent ==
    (pc = "done" /\ variant = "route") =>
        optimizeDayRoute(result, homeBase) = result

\* the sequencer reordered its input, and two visits on either side of the
\* home base were at the same distance from it
C30_Witness ==
    /\ pc = "done" /\ variant = "route"
    /\ homeBase.defined
    /\ Len(customers) = 3
    /\ result # customers
    /\ \E i, j \in DOMAIN customers :
           /\ customers[i].lat # customers[j].lat
           /\ calculateDistance(homeBase.lat, homeBase.lng,
                                customers[i].lat, customers[i].lng)
                  = calculateDistance(homeBase.lat, homeBase.lng,
                                      customers[j].lat, customers[j].lng)
    /\ optimizeDayRoute(result, homeBase) = result

====
